---- MODULE Spec2Model ----
(***************************************************************************)
(* Merkle Patricia Trie (package mpt): the nibble codec, the node algebra  *)
(* with its embed-vs-hash serialization, Trie.Put / Trie.Get, Trie.Prove   *)
(* and VerifyProof, modelled as a state machine over a small alphabet of   *)
(* keys and values.                                                        *)
(*                                                                         *)
(* Conventions.  A Go []byte / []Nibble is a sequence of naturals.  A Go   *)
(* value that may be nil (a Node interface, a []byte that is compared      *)
(* with nil) is an "option": <<>> for nil and <<x>> otherwise.  A Node is  *)
(* a record [kind, path, value, branches, next] whose unused fields are    *)
(* empty.  rlp.EncodeToBytes and crypto.Keccak256 are external: an         *)
(* encoding is represented by the encoded item itself (RLP is canonical    *)
(* and injective) together with its exact encoded length RlpLen, and a     *)
(* digest by the item tagged "hash" (collision-free).                      *)
(***************************************************************************)
EXTENDS Integers, Sequences, FiniteSets, TLC

(***************************************************************************)
(* Bounds of the model.                                                    *)
(***************************************************************************)
\* length in bytes of the long value: a Branch over two leaves that hold it
\* serializes to 32 bytes or more and is referenced by hash
LongValueLen == 5
\* longest nibble sequence given to the compact codec
MaxNibbles == 2

(***************************************************************************)
(* Program constants.                                                      *)
(***************************************************************************)
MODE_NORMAL == 0
MODE_GENERATE_FRAUD_PROOF == 1
MODE_LOAD_PRE_STATE == 2
MODE_VERIFY_FRAUD_PROOF == 3
MODE_FAILED_FRAUD_PROOF == 4
MODE_DEAD == 5
\* a child whose serialization has at least this many bytes is referenced by hash
HashRefMinLen == 32

Nil == <<>>
Some(x) == <<x>>

Min(a, b) == IF a < b THEN a ELSE b

(***************************************************************************)
(* Nibble codec (nibble.go).                                               *)
(***************************************************************************)
newNibblesFromByte(b) == << (b \div 16) % 256, b % 16 >>

RECURSIVE newNibblesFromBytes(_)
newNibblesFromBytes(bs) ==
  IF bs = <<>> THEN <<>>
  ELSE newNibblesFromByte(Head(bs)) \o newNibblesFromBytes(Tail(bs))

\* byte(ns[i]<<4) + byte(ns[i+1]) in 8-bit arithmetic; ns has even length
RECURSIVE nibblesAsBytes(_)
nibblesAsBytes(ns) ==
  IF ns = <<>> THEN <<>>
  ELSE << (((ns[1] * 16) % 256) + ns[2]) % 256 >> \o nibblesAsBytes(SubSeq(ns, 3, Len(ns)))

appendPrefixToNibbles(ns, isLeafNode) ==
  LET prefixBytes == IF Len(ns) % 2 > 0 THEN <<1>> ELSE <<0, 0>>
      prefixed == prefixBytes \o ns
  IN  IF isLeafNode THEN [prefixed EXCEPT ![1] = (@ + 2) % 256] ELSE prefixed

\* removePrefixFromNibbles with the slip of taking an even leaf's prefix (2, 0)
\* for one nibble instead of two
removePrefixFromNibblesOneNibble(ns) ==
  IF ns = <<>> THEN [panicked |-> TRUE, ns |-> <<>>, isLeafNode |-> FALSE]
  ELSE IF ns[1] = 1 THEN [panicked |-> FALSE, ns |-> Tail(ns), isLeafNode |-> FALSE]
  ELSE IF ns[1] = 3 THEN [panicked |-> FALSE, ns |-> Tail(ns), isLeafNode |-> TRUE]
  ELSE IF ns[1] = 0 THEN [panicked |-> FALSE, ns |-> SubSeq(ns, 3, Len(ns)), isLeafNode |-> FALSE]
  ELSE IF ns[1] = 2 THEN [panicked |-> FALSE, ns |-> Tail(ns), isLeafNode |-> TRUE]
  ELSE [panicked |-> TRUE, ns |-> <<>>, isLeafNode |-> FALSE]

\* result: [panicked, ns, isLeafNode]
removePrefixFromNibbles(ns) ==
  IF ns = <<>> THEN [panicked |-> TRUE, ns |-> <<>>, isLeafNode |-> FALSE]
  ELSE IF ns[1] = 1 THEN [panicked |-> FALSE, ns |-> Tail(ns), isLeafNode |-> FALSE]
  ELSE IF ns[1] = 3 THEN [panicked |-> FALSE, ns |-> Tail(ns), isLeafNode |-> TRUE]
  ELSE IF ns[1] = 0 THEN [panicked |-> FALSE, ns |-> SubSeq(ns, 3, Len(ns)), isLeafNode |-> FALSE]
  ELSE IF ns[1] = 2 THEN [panicked |-> FALSE, ns |-> SubSeq(ns, 3, Len(ns)), isLeafNode |-> TRUE]
  ELSE [panicked |-> TRUE, ns |-> <<>>, isLeafNode |-> FALSE]

RECURSIVE commonPrefixLength(_, _)
commonPrefixLength(ns1, ns2) ==
  IF ns1 = <<>> \/ ns2 = <<>> THEN 0
  ELSE IF Head(ns1) = Head(ns2) THEN 1 + commonPrefixLength(Tail(ns1), Tail(ns2))
  ELSE 0

(***************************************************************************)
(* Nodes.                                                                  *)
(***************************************************************************)
NoBranches == << Nil, Nil, Nil, Nil, Nil, Nil, Nil, Nil, Nil, Nil, Nil, Nil, Nil, Nil, Nil, Nil >>

newLeafNode(nibbles, value) ==
  [kind |-> "leaf", path |-> nibbles, value |-> Some(value), branches |-> <<>>, next |-> Nil]

newBranchNode ==
  [kind |-> "branch", path |-> <<>>, value |-> Nil, branches |-> NoBranches, next |-> Nil]

newExtensionNode(nibbles, next) ==
  [kind |-> "ext", path |-> nibbles, value |-> Nil, branches |-> <<>>, next |-> Some(next)]

\* a ProofNode stands at `nibbles` for a subtrie known by its hash only; the
\* hash is kept in the value field
newProofNode(nibbles, hash) ==
  [kind |-> "proof", path |-> nibbles, value |-> Some(hash), branches |-> <<>>, next |-> Nil]

\* branches is indexed 1..16 for the nibbles 0..15
setBranch(b, nibble, node) == [b EXCEPT !.branches[nibble + 1] = Some(node)]

setValue(b, value) == [b EXCEPT !.value = Some(value)]

\* hasValue with the slip of taking a Branch that has children for one that
\* has a value
hasValueOrChildren(b) == b.value # Nil \/ b.branches # NoBranches

hasValue(b) == b.value # Nil

(***************************************************************************)
(* Slots, RLP and Keccak.  An item is a byte string, a list of items, or   *)
(* the 32-byte digest of an encoding.                                      *)
(***************************************************************************)
BytesItem(bs) == [t |-> "bytes", b |-> bs, items |-> <<>>]
ListItem(its) == [t |-> "list", b |-> <<>>, items |-> its]

\* nilNodeRaw = []byte{}
nilNodeRaw == BytesItem(<<>>)

\* crypto.Keccak256 of the RLP encoding of item
Keccak256(item) == [t |-> "hash", b |-> <<>>, items |-> <<item>>]

\* number of bytes of the big-endian representation of n (n >= 1)
RECURSIVE IntSize(_)
IntSize(n) == IF n < 256 THEN 1 ELSE 1 + IntSize(n \div 256)

RlpHeadLen(payload) == IF payload < 56 THEN 1 ELSE 1 + IntSize(payload)

RECURSIVE RlpLen(_)
RECURSIVE RlpSumFrom(_, _)
RlpSumFrom(its, i) == IF i > Len(its) THEN 0 ELSE RlpLen(its[i]) + RlpSumFrom(its, i + 1)
\* length of the concatenated encodings of the items of a list
RlpSum(its) == RlpSumFrom(its, 1)
\* length in bytes of rlp.EncodeToBytes(item)
RlpLen(item) ==
  IF item.t = "hash" THEN 33
  ELSE IF item.t = "bytes"
       THEN IF Len(item.b) = 1 /\ item.b[1] < 128 THEN 1
            ELSE RlpHeadLen(Len(item.b)) + Len(item.b)
  ELSE LET payload == RlpSum(item.items) IN RlpHeadLen(payload) + payload

\* the value slot with the slip of keeping the first byte of the value only
OptBytesFirstByte(v) == IF v = Nil THEN <<>> ELSE << v[1][1] >>

OptBytes(v) == IF v = Nil THEN <<>> ELSE v[1]

RECURSIVE asSlots(_)
\* node.hash(): the Keccak256 of the serialization; of a ProofNode, the hash
\* it was made with
NodeHash(node) ==
  IF node.kind = "proof" THEN node.value[1] ELSE Keccak256(asSlots(node))

\* the reference to a child with the slip of `>` for `>=`
ChildRefOverMinLen(node) ==
  LET slots == asSlots(node) IN
  IF RlpLen(slots) > HashRefMinLen THEN NodeHash(node) ELSE slots

\* the reference to a child: its hash when it serializes to >= 32 bytes, else inlined
ChildRef(node) ==
  LET slots == asSlots(node) IN
  IF RlpLen(slots) >= HashRefMinLen THEN NodeHash(node) ELSE slots

\* slots[i] of a Branch for the child slot of nibble i - 1
BranchSlot(child) == IF child = Nil THEN nilNodeRaw ELSE ChildRef(child[1])

\* BranchNode.asSlots with the slip of leaving slots[16] at nilNodeRaw
BranchAsSlotsNoValue(b) ==
  LET c == b.branches IN
  ListItem(<< BranchSlot(c[1]), BranchSlot(c[2]), BranchSlot(c[3]), BranchSlot(c[4]),
              BranchSlot(c[5]), BranchSlot(c[6]), BranchSlot(c[7]), BranchSlot(c[8]),
              BranchSlot(c[9]), BranchSlot(c[10]), BranchSlot(c[11]), BranchSlot(c[12]),
              BranchSlot(c[13]), BranchSlot(c[14]), BranchSlot(c[15]), BranchSlot(c[16]),
              nilNodeRaw >>)

BranchAsSlots(b) ==
  LET c == b.branches IN
  ListItem(<< BranchSlot(c[1]), BranchSlot(c[2]), BranchSlot(c[3]), BranchSlot(c[4]),
              BranchSlot(c[5]), BranchSlot(c[6]), BranchSlot(c[7]), BranchSlot(c[8]),
              BranchSlot(c[9]), BranchSlot(c[10]), BranchSlot(c[11]), BranchSlot(c[12]),
              BranchSlot(c[13]), BranchSlot(c[14]), BranchSlot(c[15]), BranchSlot(c[16]),
              BytesItem(OptBytes(b.value)) >>)

ExtensionAsSlots(e) ==
  ListItem(<< BytesItem(nibblesAsBytes(appendPrefixToNibbles(e.path, FALSE))),
              ChildRef(e.next[1]) >>)

\* LeafNode.asSlots with the slip of serializing the path alone
LeafAsSlotsNoValue(l) ==
  ListItem(<< BytesItem(nibblesAsBytes(appendPrefixToNibbles(l.path, TRUE))),
              nilNodeRaw >>)

LeafAsSlots(l) ==
  ListItem(<< BytesItem(nibblesAsBytes(appendPrefixToNibbles(l.path, TRUE))),
              BytesItem(OptBytes(l.value)) >>)

\* ProofNode.asSlots: the magic slot 16 and the hash
ProofAsSlots(p) == ListItem(<< BytesItem(<<16>>), p.value[1] >>)

asSlots(node) ==
  IF node.kind = "leaf" THEN LeafAsSlots(node)
  ELSE IF node.kind = "ext" THEN ExtensionAsSlots(node)
  ELSE IF node.kind = "proof" THEN ProofAsSlots(node)
  ELSE BranchAsSlots(node)

\* serializeNode of a slot (a nil node serializes as the empty byte string)
serializeNode(slot) == IF slot = Nil THEN nilNodeRaw ELSE asSlots(slot[1])

ComputeHash(node) == Keccak256(asSlots(node))

\* 56e81f17...63b421 = Keccak256(rlp(""))
nilNodeHash == Keccak256(nilNodeRaw)

\* Trie.RootHash with the slip of answering nilNodeRaw for the empty trie
RootHashNilRaw(rootSlot) == IF rootSlot = Nil THEN nilNodeRaw ELSE NodeHash(rootSlot[1])

RootHash(rootSlot) == IF rootSlot = Nil THEN nilNodeHash ELSE NodeHash(rootSlot[1])

(***************************************************************************)
(* Trie.Put (trie.go).  The walk over the slot pointer is a recursion that *)
(* returns the new content of the slot; panicked reports a run-time panic  *)
(* (the slot is then returned unchanged: the code assigns nothing before   *)
(* the panicking expression).                                              *)
(***************************************************************************)
PutResult(slot, panicked) == [slot |-> slot, panicked |-> panicked]

\* case *LeafNode with the slip of wrapping, when the new key ends inside
\* leaf.path, the rest of the old Leaf instead of the Branch
PutLeafExtensionOverLeaf(leaf, remainingPath, value) ==
  LET lenCommonPrefix == commonPrefixLength(remainingPath, leaf.path)
      branch0 == newBranchNode
      branch1 == IF Len(remainingPath) = lenCommonPrefix THEN setValue(branch0, value)
                 ELSE IF Len(leaf.path) = lenCommonPrefix THEN setValue(branch0, leaf.value[1])
                 ELSE branch0
      branch2 == IF Len(leaf.path) > lenCommonPrefix
                 THEN setBranch(branch1, leaf.path[lenCommonPrefix + 1],
                        newLeafNode(SubSeq(leaf.path, lenCommonPrefix + 2, Len(leaf.path)), leaf.value[1]))
                 ELSE branch1
      branch3 == IF Len(remainingPath) > lenCommonPrefix
                 THEN setBranch(branch2, remainingPath[lenCommonPrefix + 1],
                        newLeafNode(SubSeq(remainingPath, lenCommonPrefix + 2, Len(remainingPath)), value))
                 ELSE branch2
  IN  IF lenCommonPrefix = Len(remainingPath) /\ lenCommonPrefix = Len(leaf.path)
      THEN PutResult(Some(newLeafNode(leaf.path, value)), FALSE)
      ELSE IF lenCommonPrefix > 0
      THEN IF Len(remainingPath) = lenCommonPrefix
           THEN PutResult(Some(newExtensionNode(SubSeq(leaf.path, 1, lenCommonPrefix),
                  newLeafNode(SubSeq(leaf.path, lenCommonPrefix + 1, Len(leaf.path)), leaf.value[1]))), FALSE)
           ELSE PutResult(Some(newExtensionNode(SubSeq(leaf.path, 1, lenCommonPrefix), branch3)), FALSE)
      ELSE PutResult(Some(branch3), FALSE)

\* case *LeafNode with the slip of leaving out Case 1 (leaf.path == remainingPath)
PutLeafNoUpdate(leaf, remainingPath, value) ==
  LET lenCommonPrefix == commonPrefixLength(remainingPath, leaf.path)
      branch0 == newBranchNode
      branch1 == IF Len(remainingPath) = lenCommonPrefix THEN setValue(branch0, value)
                 ELSE IF Len(leaf.path) = lenCommonPrefix THEN setValue(branch0, leaf.value[1])
                 ELSE branch0
      branch2 == IF Len(leaf.path) > lenCommonPrefix
                 THEN setBranch(branch1, leaf.path[lenCommonPrefix + 1],
                        newLeafNode(SubSeq(leaf.path, lenCommonPrefix + 2, Len(leaf.path)), leaf.value[1]))
                 ELSE branch1
      branch3 == IF Len(remainingPath) > lenCommonPrefix
                 THEN setBranch(branch2, remainingPath[lenCommonPrefix + 1],
                        newLeafNode(SubSeq(remainingPath, lenCommonPrefix + 2, Len(remainingPath)), value))
                 ELSE branch2
  IN  IF lenCommonPrefix > 0
      THEN PutResult(Some(newExtensionNode(SubSeq(leaf.path, 1, lenCommonPrefix), branch3)), FALSE)
      ELSE PutResult(Some(branch3), FALSE)

\* case *LeafNode with the slip of starting the old pair's tail leaf at
\* leaf.path[lenCommonPrefix] instead of leaf.path[lenCommonPrefix+1]
PutLeafTailOffByOne(leaf, remainingPath, value) ==
  LET lenCommonPrefix == commonPrefixLength(remainingPath, leaf.path)
      branch0 == newBranchNode
      branch1 == IF Len(remainingPath) = lenCommonPrefix THEN setValue(branch0, value)
                 ELSE IF Len(leaf.path) = lenCommonPrefix THEN setValue(branch0, leaf.value[1])
                 ELSE branch0
      branch2 == IF Len(leaf.path) > lenCommonPrefix
                 THEN setBranch(branch1, leaf.path[lenCommonPrefix + 1],
                        newLeafNode(SubSeq(leaf.path, lenCommonPrefix + 1, Len(leaf.path)), leaf.value[1]))
                 ELSE branch1
      branch3 == IF Len(remainingPath) > lenCommonPrefix
                 THEN setBranch(branch2, remainingPath[lenCommonPrefix + 1],
                        newLeafNode(SubSeq(remainingPath, lenCommonPrefix + 2, Len(remainingPath)), value))
                 ELSE branch2
  IN  IF lenCommonPrefix = Len(remainingPath) /\ lenCommonPrefix = Len(leaf.path)
      THEN PutResult(Some(newLeafNode(leaf.path, value)), FALSE)
      ELSE IF lenCommonPrefix > 0
      THEN PutResult(Some(newExtensionNode(SubSeq(leaf.path, 1, lenCommonPrefix), branch3)), FALSE)
      ELSE PutResult(Some(branch3), FALSE)

\* case *LeafNode with the slip of setting the new value on the Branch
\* whether or not remainingPath ends there
PutLeafValueAlways(leaf, remainingPath, value) ==
  LET lenCommonPrefix == commonPrefixLength(remainingPath, leaf.path)
      branch0 == newBranchNode
      branch1 == setValue(branch0, value)
      branch2 == IF Len(leaf.path) > lenCommonPrefix
                 THEN setBranch(branch1, leaf.path[lenCommonPrefix + 1],
                        newLeafNode(SubSeq(leaf.path, lenCommonPrefix + 2, Len(leaf.path)), leaf.value[1]))
                 ELSE branch1
      branch3 == IF Len(remainingPath) > lenCommonPrefix
                 THEN setBranch(branch2, remainingPath[lenCommonPrefix + 1],
                        newLeafNode(SubSeq(remainingPath, lenCommonPrefix + 2, Len(remainingPath)), value))
                 ELSE branch2
  IN  IF lenCommonPrefix = Len(remainingPath) /\ lenCommonPrefix = Len(leaf.path)
      THEN PutResult(Some(newLeafNode(leaf.path, value)), FALSE)
      ELSE IF lenCommonPrefix > 0
      THEN PutResult(Some(newExtensionNode(SubSeq(leaf.path, 1, lenCommonPrefix), branch3)), FALSE)
      ELSE PutResult(Some(branch3), FALSE)

\* case *LeafNode
PutLeaf(leaf, remainingPath, value) ==
  LET lenCommonPrefix == commonPrefixLength(remainingPath, leaf.path)
      branch0 == newBranchNode
      branch1 == IF Len(remainingPath) = lenCommonPrefix THEN setValue(branch0, value)
                 ELSE IF Len(leaf.path) = lenCommonPrefix THEN setValue(branch0, leaf.value[1])
                 ELSE branch0
      branch2 == IF Len(leaf.path) > lenCommonPrefix
                 THEN setBranch(branch1, leaf.path[lenCommonPrefix + 1],
                        newLeafNode(SubSeq(leaf.path, lenCommonPrefix + 2, Len(leaf.path)), leaf.value[1]))
                 ELSE branch1
      branch3 == IF Len(remainingPath) > lenCommonPrefix
                 THEN setBranch(branch2, remainingPath[lenCommonPrefix + 1],
                        newLeafNode(SubSeq(remainingPath, lenCommonPrefix + 2, Len(remainingPath)), value))
                 ELSE branch2
  IN  IF lenCommonPrefix = Len(remainingPath) /\ lenCommonPrefix = Len(leaf.path)
      THEN PutResult(Some(newLeafNode(leaf.path, value)), FALSE)
      ELSE IF lenCommonPrefix > 0
      THEN PutResult(Some(newExtensionNode(SubSeq(leaf.path, 1, lenCommonPrefix), branch3)), FALSE)
      ELSE PutResult(Some(branch3), FALSE)

\* Case 1 with the slip of starting the excess path at ext.path[lenCommonPrefix]
\* instead of ext.path[lenCommonPrefix+1]
PutExtensionSplitOffByOne(ext, remainingPath, value, lenCommonPrefix) ==
  IF lenCommonPrefix >= Len(remainingPath)
  THEN PutResult(Some(ext), TRUE)
  ELSE
  LET commonPrefix == SubSeq(ext.path, 1, lenCommonPrefix)
      firstExcessNibble == ext.path[lenCommonPrefix + 1]
      extExcessPath == SubSeq(ext.path, lenCommonPrefix + 1, Len(ext.path))
      nodeBranchNibble == remainingPath[lenCommonPrefix + 1]
      nodeLeafNibbles == SubSeq(remainingPath, lenCommonPrefix + 2, Len(remainingPath))
      branch0 == newBranchNode
      branch1 == IF Len(extExcessPath) = 0
                 THEN setBranch(branch0, firstExcessNibble, ext.next[1])
                 ELSE setBranch(branch0, firstExcessNibble, newExtensionNode(extExcessPath, ext.next[1]))
      branch2 == setBranch(branch1, nodeBranchNibble, newLeafNode(nodeLeafNibbles, value))
  IN  IF lenCommonPrefix > 0
      THEN PutResult(Some(newExtensionNode(commonPrefix, branch2)), FALSE)
      ELSE PutResult(Some(branch2), FALSE)

\* Case 1 with the slip of leaving out Case 1A: the old child is always
\* wrapped in an Extension over the excess path
PutExtensionSplitAlwaysWraps(ext, remainingPath, value, lenCommonPrefix) ==
  IF lenCommonPrefix >= Len(remainingPath)
  THEN PutResult(Some(ext), TRUE)
  ELSE
  LET commonPrefix == SubSeq(ext.path, 1, lenCommonPrefix)
      firstExcessNibble == ext.path[lenCommonPrefix + 1]
      extExcessPath == SubSeq(ext.path, lenCommonPrefix + 2, Len(ext.path))
      nodeBranchNibble == remainingPath[lenCommonPrefix + 1]
      nodeLeafNibbles == SubSeq(remainingPath, lenCommonPrefix + 2, Len(remainingPath))
      branch0 == newBranchNode
      branch1 == setBranch(branch0, firstExcessNibble, newExtensionNode(extExcessPath, ext.next[1]))
      branch2 == setBranch(branch1, nodeBranchNibble, newLeafNode(nodeLeafNibbles, value))
  IN  IF lenCommonPrefix > 0
      THEN PutResult(Some(newExtensionNode(commonPrefix, branch2)), FALSE)
      ELSE PutResult(Some(branch2), FALSE)

\* Case 1 with the slip of installing, when there is no common prefix, the
\* new Leaf instead of the Branch
PutExtensionSplitInstallsLeaf(ext, remainingPath, value, lenCommonPrefix) ==
  IF lenCommonPrefix >= Len(remainingPath)
  THEN PutResult(Some(ext), TRUE)
  ELSE
  LET commonPrefix == SubSeq(ext.path, 1, lenCommonPrefix)
      firstExcessNibble == ext.path[lenCommonPrefix + 1]
      extExcessPath == SubSeq(ext.path, lenCommonPrefix + 2, Len(ext.path))
      nodeBranchNibble == remainingPath[lenCommonPrefix + 1]
      nodeLeafNibbles == SubSeq(remainingPath, lenCommonPrefix + 2, Len(remainingPath))
      remainingLeaf == newLeafNode(nodeLeafNibbles, value)
      branch0 == newBranchNode
      branch1 == IF Len(extExcessPath) = 0
                 THEN setBranch(branch0, firstExcessNibble, ext.next[1])
                 ELSE setBranch(branch0, firstExcessNibble, newExtensionNode(extExcessPath, ext.next[1]))
      branch2 == setBranch(branch1, nodeBranchNibble, remainingLeaf)
  IN  IF lenCommonPrefix > 0
      THEN PutResult(Some(newExtensionNode(commonPrefix, branch2)), FALSE)
      ELSE PutResult(Some(remainingLeaf), FALSE)

\* case *ExtensionNode, Case 1: len(ext.path) > lenCommonPrefix.
\* remainingPath[lenCommonPrefix] is an index out of range when the remaining
\* path ends inside ext.path.
PutExtensionSplit(ext, remainingPath, value, lenCommonPrefix) ==
  IF lenCommonPrefix >= Len(remainingPath)
  THEN PutResult(Some(ext), TRUE)
  ELSE
  LET commonPrefix == SubSeq(ext.path, 1, lenCommonPrefix)
      firstExcessNibble == ext.path[lenCommonPrefix + 1]
      extExcessPath == SubSeq(ext.path, lenCommonPrefix + 2, Len(ext.path))
      nodeBranchNibble == remainingPath[lenCommonPrefix + 1]
      nodeLeafNibbles == SubSeq(remainingPath, lenCommonPrefix + 2, Len(remainingPath))
      branch0 == newBranchNode
      branch1 == IF Len(extExcessPath) = 0
                 THEN setBranch(branch0, firstExcessNibble, ext.next[1])
                 ELSE setBranch(branch0, firstExcessNibble, newExtensionNode(extExcessPath, ext.next[1]))
      branch2 == setBranch(branch1, nodeBranchNibble, newLeafNode(nodeLeafNibbles, value))
  IN  IF lenCommonPrefix > 0
      THEN PutResult(Some(newExtensionNode(commonPrefix, branch2)), FALSE)
      ELSE PutResult(Some(branch2), FALSE)

RECURSIVE PutWalk(_, _, _)
\* the for-loop of Put on the slot *node with the given remainingPath
PutWalk(slot, remainingPath, value) ==
  IF slot = Nil THEN PutResult(Some(newLeafNode(remainingPath, value)), FALSE)
  ELSE LET n == slot[1] IN
    IF n.kind = "leaf" THEN PutLeaf(n, remainingPath, value)
    ELSE IF n.kind = "branch" THEN
      IF Len(remainingPath) = 0 THEN PutResult(Some(setValue(n, value)), FALSE)
      ELSE LET b == remainingPath[1]
               sub == PutWalk(n.branches[b + 1], Tail(remainingPath), value)
           IN  PutResult(Some([n EXCEPT !.branches[b + 1] = sub.slot]), sub.panicked)
    ELSE IF n.kind = "ext" THEN
      LET lenCommonPrefix == commonPrefixLength(n.path, remainingPath) IN
      IF Len(n.path) > lenCommonPrefix
      THEN PutExtensionSplit(n, remainingPath, value, lenCommonPrefix)
      ELSE LET sub == PutWalk(n.next, SubSeq(remainingPath, lenCommonPrefix + 1, Len(remainingPath)), value)
           IN  PutResult(Some([n EXCEPT !.next = sub.slot]), sub.panicked)
    ELSE PutResult(slot, TRUE)

\* Trie.Put in a trie of the given mode
Put(rootSlot, trieMode, key, value) ==
  IF trieMode # MODE_NORMAL /\ trieMode # MODE_GENERATE_FRAUD_PROOF /\ trieMode # MODE_VERIFY_FRAUD_PROOF
  THEN PutResult(rootSlot, TRUE)
  ELSE PutWalk(rootSlot, newNibblesFromBytes(key), value)

\* one pass of the for-loop of Put with *node = slot: `returned` when the pass
\* ends in `return nil`, `panicked` when it panics, and otherwise the *node
\* and remainingPath the next pass starts from.  When the pass returns, node
\* is what it has installed in *node.
PutPass(returned, panicked, node, remainingPath) ==
  [returned |-> returned, panicked |-> panicked, node |-> node,
   remainingPath |-> remainingPath]

PutIteration(slot, remainingPath, value) ==
  IF slot = Nil
  THEN PutPass(TRUE, FALSE, Some(newLeafNode(remainingPath, value)), remainingPath)
  ELSE LET n == slot[1] IN
    IF n.kind = "leaf"
    THEN PutPass(TRUE, FALSE, PutLeaf(n, remainingPath, value).slot, remainingPath)
    ELSE IF n.kind = "branch" THEN
      IF Len(remainingPath) = 0
      THEN PutPass(TRUE, FALSE, Some(setValue(n, value)), remainingPath)
      ELSE PutPass(FALSE, FALSE, n.branches[remainingPath[1] + 1], Tail(remainingPath))
    ELSE IF n.kind = "ext" THEN
      LET lenCommonPrefix == commonPrefixLength(n.path, remainingPath) IN
      IF Len(n.path) > lenCommonPrefix
      THEN LET r == PutExtensionSplit(n, remainingPath, value, lenCommonPrefix)
           IN  PutPass(~r.panicked, r.panicked, r.slot, remainingPath)
      ELSE PutPass(FALSE, FALSE, n.next,
                   SubSeq(remainingPath, lenCommonPrefix + 1, Len(remainingPath)))
    ELSE PutPass(FALSE, TRUE, slot, remainingPath)

(***************************************************************************)
(* Trie.Get / getNormally.  The result is an option: Nil is Go's nil.      *)
(***************************************************************************)
\* getNormally with the slip of accepting a Leaf whose path merely starts
\* with the remaining nibbles
RECURSIVE getNormallyLeafPrefix(_, _)
getNormallyLeafPrefix(slot, nibbles) ==
  IF slot = Nil THEN Nil
  ELSE LET node == slot[1] IN
    IF node.kind = "leaf" THEN
      LET matched == commonPrefixLength(node.path, nibbles) IN
      IF matched # Len(nibbles) THEN Nil ELSE node.value
    ELSE IF node.kind = "branch" THEN
      IF Len(nibbles) = 0 THEN node.value
      ELSE getNormallyLeafPrefix(node.branches[nibbles[1] + 1], Tail(nibbles))
    ELSE IF node.kind = "ext" THEN
      LET matched == commonPrefixLength(node.path, nibbles) IN
      IF matched < Len(node.path) THEN Nil
      ELSE getNormallyLeafPrefix(node.next, SubSeq(nibbles, matched + 1, Len(nibbles)))
    ELSE Nil

RECURSIVE getNormally(_, _)
getNormally(slot, nibbles) ==
  IF slot = Nil THEN Nil
  ELSE LET node == slot[1] IN
    IF node.kind = "leaf" THEN
      LET matched == commonPrefixLength(node.path, nibbles) IN
      IF matched # Len(node.path) \/ matched # Len(nibbles) THEN Nil ELSE node.value
    ELSE IF node.kind = "branch" THEN
      IF Len(nibbles) = 0 THEN node.value
      ELSE getNormally(node.branches[nibbles[1] + 1], Tail(nibbles))
    ELSE IF node.kind = "ext" THEN
      LET matched == commonPrefixLength(node.path, nibbles) IN
      IF matched < Len(node.path) THEN Nil
      ELSE getNormally(node.next, SubSeq(nibbles, matched + 1, Len(nibbles)))
    ELSE Nil

\* result: [panicked, value]
Get(rootSlot, trieMode, key) ==
  IF trieMode = MODE_DEAD THEN [panicked |-> TRUE, value |-> Nil]
  ELSE [panicked |-> FALSE, value |-> getNormally(rootSlot, newNibblesFromBytes(key))]


(***************************************************************************)
(* Proofs (proof.go).  A ProofDB is the set of its entries [k, v]: k the   *)
(* hash a node is stored under, v the serialization stored there.          *)
(***************************************************************************)
\* ProofDB.Put with the slip of replacing the map instead of adding to it
ProofPutReplacing(kv, key, value) == {[k |-> key, v |-> value]}

ProofPut(kv, key, value) == {e \in kv : e.k # key} \cup {[k |-> key, v |-> value]}

ProofHas(kv, key) == \E e \in kv : e.k = key

ProofGet(kv, key) == (CHOOSE e \in kv : e.k = key).v

\* result of Prove: the Proof (isNil, or the ProofDB kv) and the found flag
ProveResult(isNil, kv, found) == [isNil |-> isNil, kv |-> kv, found |-> found]

RECURSIVE ProveWalkHashedOnly(_, _, _)
\* the loop of Prove with the slip of putting only the nodes that serialize
\* to 32 bytes or more
ProveWalkHashedOnly(slot, nibbles, kv) ==
  IF slot = Nil THEN ProveResult(TRUE, {}, FALSE)
  ELSE LET node == slot[1]
           proof == IF RlpLen(serializeNode(slot)) >= HashRefMinLen
                    THEN ProofPut(kv, ComputeHash(node), serializeNode(slot))
                    ELSE kv
       IN
    IF node.kind = "leaf" THEN
      LET matched == commonPrefixLength(node.path, nibbles) IN
      IF matched # Len(node.path) \/ matched # Len(nibbles)
      THEN ProveResult(TRUE, {}, FALSE)
      ELSE ProveResult(FALSE, proof, TRUE)
    ELSE IF node.kind = "branch" THEN
      IF Len(nibbles) = 0 THEN ProveResult(FALSE, proof, hasValue(node))
      ELSE ProveWalkHashedOnly(node.branches[nibbles[1] + 1], Tail(nibbles), proof)
    ELSE
      LET matched == commonPrefixLength(node.path, nibbles) IN
      IF matched < Len(node.path) THEN ProveResult(TRUE, {}, FALSE)
      ELSE ProveWalkHashedOnly(node.next, SubSeq(nibbles, matched + 1, Len(nibbles)), proof)

RECURSIVE ProveWalk(_, _, _)
ProveWalk(slot, nibbles, kv) ==
  IF slot = Nil THEN ProveResult(TRUE, {}, FALSE)
  ELSE LET node == slot[1]
           proof == ProofPut(kv, ComputeHash(node), serializeNode(slot))
       IN
    IF node.kind = "leaf" THEN
      LET matched == commonPrefixLength(node.path, nibbles) IN
      IF matched # Len(node.path) \/ matched # Len(nibbles)
      THEN ProveResult(TRUE, {}, FALSE)
      ELSE ProveResult(FALSE, proof, TRUE)
    ELSE IF node.kind = "branch" THEN
      IF Len(nibbles) = 0 THEN ProveResult(FALSE, proof, hasValue(node))
      ELSE ProveWalk(node.branches[nibbles[1] + 1], Tail(nibbles), proof)
    ELSE
      LET matched == commonPrefixLength(node.path, nibbles) IN
      IF matched < Len(node.path) THEN ProveResult(TRUE, {}, FALSE)
      ELSE ProveWalk(node.next, SubSeq(nibbles, matched + 1, Len(nibbles)), proof)

Prove(rootSlot, key) == ProveWalk(rootSlot, newNibblesFromBytes(key), {})

(***************************************************************************)
(* VerifyProof.  proof.go delegates to the verifier of the go-ethereum     *)
(* trie package, which is not part of the sources; the walk below follows  *)
(* the design's description of verification (look the root up by hash,     *)
(* tell the shape from the list arity and the compact prefix, consume the  *)
(* key, resolve a reference inline or through the bag).                    *)
(***************************************************************************)
VerifyResult(err, value) == [err |-> err, value |-> value]

IsPrefixOf(p, q) == Len(p) <= Len(q) /\ SubSeq(q, 1, Len(p)) = p

RECURSIVE VerifyWalk(_, _, _)
\* resolve a child reference found in a decoded node
VerifyResolve(ref, remaining, kv) ==
  IF ref.t = "list" THEN VerifyWalk(ref, remaining, kv)
  ELSE IF ref.t = "hash" THEN
    IF ProofHas(kv, ref) THEN VerifyWalk(ProofGet(kv, ref), remaining, kv)
    ELSE VerifyResult("MissingNode", Nil)
  ELSE IF ref.b = <<>> THEN VerifyResult("KeyMismatch", Nil)
  ELSE VerifyResult("Malformed", Nil)

VerifyWalk(item, remaining, kv) ==
  IF item.t # "list" THEN VerifyResult("Malformed", Nil)
  ELSE IF Len(item.items) = 17 THEN
    IF remaining = <<>> THEN
      IF item.items[17].t # "bytes" THEN VerifyResult("Malformed", Nil)
      ELSE IF item.items[17].b = <<>> THEN VerifyResult("KeyMismatch", Nil)
      ELSE VerifyResult("", Some(item.items[17].b))
    ELSE VerifyResolve(item.items[remaining[1] + 1], Tail(remaining), kv)
  ELSE IF Len(item.items) = 2 THEN
    IF item.items[1].t # "bytes" THEN VerifyResult("Malformed", Nil)
    ELSE LET dec == removePrefixFromNibbles(newNibblesFromBytes(item.items[1].b)) IN
      IF dec.panicked THEN VerifyResult("Malformed", Nil)
      ELSE IF dec.isLeafNode THEN
        IF item.items[2].t # "bytes" THEN VerifyResult("Malformed", Nil)
        ELSE IF dec.ns = remaining THEN VerifyResult("", Some(item.items[2].b))
        ELSE VerifyResult("KeyMismatch", Nil)
      ELSE IF IsPrefixOf(dec.ns, remaining)
           THEN VerifyResolve(item.items[2], SubSeq(remaining, Len(dec.ns) + 1, Len(remaining)), kv)
           ELSE VerifyResult("KeyMismatch", Nil)
  ELSE VerifyResult("Malformed", Nil)

EthVerifyProof(rootHash, key, kv) ==
  IF ProofHas(kv, rootHash)
  THEN VerifyWalk(ProofGet(kv, rootHash), newNibblesFromBytes(key), kv)
  ELSE VerifyResult("MissingNode", Nil)

\* VerifyProof with the slip of dropping the verifier's error
VerifyProofDropsError(rootHash, key, kv) ==
  VerifyResult("", EthVerifyProof(rootHash, key, kv).value)

VerifyProof(rootHash, key, kv) == EthVerifyProof(rootHash, key, kv)


(***************************************************************************)
(* The fraud-proof modes (trie.go).  A Trie is the record of its fields.   *)
(* A call answers with the Trie as the call leaves it (a panic leaves what *)
(* was assigned before it), whether it panicked, and what it returned:     *)
(* a Go error is an option of its message, a []byte an option of bytes.    *)
(***************************************************************************)
NewTrie(trieMode) ==
  [root |-> Nil, mode |-> trieMode, readSet |-> <<>>, writeList |-> <<>>,
   postStateProofs |-> <<>>, failedFraudProofReason |-> Nil]

Called(t, panicked, out) == [t |-> t, panicked |-> panicked, out |-> out]

RECURSIVE putProofNodeWalk(_, _, _)
\* the for-loop of putProofNode on the slot *node: [slot, err, panicked]
putProofNodeWalk(slot, remainingPath, hash) ==
  IF slot = Nil
  THEN [slot |-> Some(newProofNode(remainingPath, hash)), err |-> Nil, panicked |-> FALSE]
  ELSE LET n == slot[1] IN
    IF n.kind = "leaf" THEN
      LET lenCommonPrefix == commonPrefixLength(remainingPath, n.path)
          branch0 == newBranchNode
          branch1 == IF Len(n.path) = lenCommonPrefix
                     THEN setValue(branch0, n.value[1]) ELSE branch0
          branch2 == IF Len(n.path) > lenCommonPrefix
                     THEN setBranch(branch1, n.path[lenCommonPrefix + 1],
                            newLeafNode(SubSeq(n.path, lenCommonPrefix + 2, Len(n.path)), n.value[1]))
                     ELSE branch1
          branch3 == setBranch(branch2, remainingPath[lenCommonPrefix + 1],
                       newProofNode(SubSeq(remainingPath, lenCommonPrefix + 2, Len(remainingPath)), hash))
      IN  IF lenCommonPrefix = Len(remainingPath) /\ lenCommonPrefix = Len(n.path)
          THEN [slot |-> slot, err |-> Some("illegal case L1"), panicked |-> FALSE]
          ELSE IF Len(remainingPath) = lenCommonPrefix
          THEN [slot |-> slot, err |-> Some("illegal case L2"), panicked |-> FALSE]
          ELSE IF ~(Len(remainingPath) > lenCommonPrefix)
          THEN [slot |-> slot, err |-> Some("illegal case L3"), panicked |-> FALSE]
          ELSE IF lenCommonPrefix > 0
          THEN [slot |-> Some(newExtensionNode(SubSeq(n.path, 1, lenCommonPrefix), branch3)),
                err |-> Nil, panicked |-> FALSE]
          ELSE [slot |-> Some(branch3), err |-> Nil, panicked |-> FALSE]
    ELSE IF n.kind = "branch" THEN
      IF Len(remainingPath) = 0
      THEN [slot |-> slot, err |-> Some("illegal case B1"), panicked |-> FALSE]
      ELSE LET b == remainingPath[1]
               sub == putProofNodeWalk(n.branches[b + 1], Tail(remainingPath), hash)
           IN  [slot |-> Some([n EXCEPT !.branches[b + 1] = sub.slot]),
                err |-> sub.err, panicked |-> sub.panicked]
    ELSE IF n.kind = "ext" THEN
      LET lenCommonPrefix == commonPrefixLength(n.path, remainingPath) IN
      IF Len(n.path) > lenCommonPrefix
      THEN \* Case 1; remainingPath[lenCommonPrefix] is an index out of range
           \* when remainingPath ends inside ext.path
           IF lenCommonPrefix >= Len(remainingPath)
           THEN [slot |-> slot, err |-> Nil, panicked |-> TRUE]
           ELSE
           LET commonPrefix == SubSeq(n.path, 1, lenCommonPrefix)
               firstExcessNibble == n.path[lenCommonPrefix + 1]
               extExcessPath == SubSeq(n.path, lenCommonPrefix + 2, Len(n.path))
               branch0 == newBranchNode
               branch1 == IF Len(extExcessPath) = 0
                          THEN setBranch(branch0, firstExcessNibble, n.next[1])
                          ELSE setBranch(branch0, firstExcessNibble,
                                 newExtensionNode(extExcessPath, n.next[1]))
               branch2 == setBranch(branch1, remainingPath[lenCommonPrefix + 1],
                            newProofNode(SubSeq(remainingPath, lenCommonPrefix + 2, Len(remainingPath)), hash))
           IN  IF lenCommonPrefix > 0
               THEN [slot |-> Some(newExtensionNode(commonPrefix, branch2)),
                     err |-> Nil, panicked |-> FALSE]
               ELSE [slot |-> Some(branch2), err |-> Nil, panicked |-> FALSE]
      ELSE LET sub == putProofNodeWalk(n.next,
                        SubSeq(remainingPath, lenCommonPrefix + 1, Len(remainingPath)), hash)
           IN  [slot |-> Some([n EXCEPT !.next = sub.slot]),
                err |-> sub.err, panicked |-> sub.panicked]
    ELSE IF n.kind = "proof" THEN
      LET lenCommonPrefix == commonPrefixLength(remainingPath, n.path) IN
      IF lenCommonPrefix = Len(remainingPath) /\ lenCommonPrefix = Len(n.path)
      THEN [slot |-> slot, err |-> Some("illegal case P1"), panicked |-> FALSE]
      ELSE IF lenCommonPrefix = Len(remainingPath)
      THEN [slot |-> slot, err |-> Some("illegal case P2"), panicked |-> FALSE]
      ELSE IF lenCommonPrefix = Len(n.path)
      THEN [slot |-> slot, err |-> Some("illegal case P3"), panicked |-> FALSE]
      ELSE
      LET branch0 == newBranchNode
          branch1 == setBranch(branch0, n.path[lenCommonPrefix + 1],
                       newProofNode(SubSeq(n.path, lenCommonPrefix + 2, Len(n.path)), NodeHash(n)))
          branch2 == setBranch(branch1, remainingPath[lenCommonPrefix + 1],
                       newProofNode(SubSeq(remainingPath, lenCommonPrefix + 2, Len(remainingPath)), hash))
      IN  IF lenCommonPrefix > 0
          THEN [slot |-> Some(newExtensionNode(SubSeq(n.path, 1, lenCommonPrefix), branch2)),
                err |-> Nil, panicked |-> FALSE]
          ELSE [slot |-> Some(branch2), err |-> Nil, panicked |-> FALSE]
    ELSE [slot |-> slot, err |-> Nil, panicked |-> TRUE]

putProofNode(t, path, hash) ==
  LET walked(r) == Called([t EXCEPT !.root = r.slot], r.panicked, r.err)
  IN  IF t.mode # MODE_VERIFY_FRAUD_PROOF /\ t.mode # MODE_LOAD_PRE_STATE
      THEN Called(t, TRUE, Nil)
      ELSE walked(putProofNodeWalk(t.root, path, hash))

RECURSIVE PutWalkProof(_, _, _, _)
\* the for-loop of Put in a Trie of the given mode, the arm for a ProofNode
\* included
PutWalkProof(slot, remainingPath, value, trieMode) ==
  IF slot = Nil THEN PutResult(Some(newLeafNode(remainingPath, value)), FALSE)
  ELSE LET n == slot[1] IN
    IF n.kind = "leaf" THEN PutLeaf(n, remainingPath, value)
    ELSE IF n.kind = "branch" THEN
      IF Len(remainingPath) = 0 THEN PutResult(Some(setValue(n, value)), FALSE)
      ELSE LET b == remainingPath[1]
               sub == PutWalkProof(n.branches[b + 1], Tail(remainingPath), value, trieMode)
           IN  PutResult(Some([n EXCEPT !.branches[b + 1] = sub.slot]), sub.panicked)
    ELSE IF n.kind = "ext" THEN
      LET lenCommonPrefix == commonPrefixLength(n.path, remainingPath) IN
      IF Len(n.path) > lenCommonPrefix
      THEN PutExtensionSplit(n, remainingPath, value, lenCommonPrefix)
      ELSE LET sub == PutWalkProof(n.next,
                        SubSeq(remainingPath, lenCommonPrefix + 1, Len(remainingPath)),
                        value, trieMode)
           IN  PutResult(Some([n EXCEPT !.next = sub.slot]), sub.panicked)
    ELSE IF n.kind = "proof" THEN
      LET lenCommonPrefix == commonPrefixLength(remainingPath, n.path)
          branch0 == newBranchNode
          branch1 == IF Len(remainingPath) = lenCommonPrefix
                     THEN setValue(branch0, value) ELSE branch0
          branch2 == IF Len(n.path) > lenCommonPrefix
                     THEN setBranch(branch1, n.path[lenCommonPrefix + 1],
                            newProofNode(SubSeq(n.path, lenCommonPrefix + 2, Len(n.path)), NodeHash(n)))
                     ELSE branch1
          branch3 == IF Len(remainingPath) > lenCommonPrefix
                     THEN setBranch(branch2, remainingPath[lenCommonPrefix + 1],
                            newLeafNode(SubSeq(remainingPath, lenCommonPrefix + 2, Len(remainingPath)), value))
                     ELSE branch2
      IN  IF trieMode # MODE_VERIFY_FRAUD_PROOF THEN PutResult(slot, TRUE)
          ELSE IF Len(remainingPath) = lenCommonPrefix /\ Len(n.path) = Len(remainingPath)
          THEN PutResult(Some(newLeafNode(n.path, value)), FALSE)
          ELSE IF Len(remainingPath) # lenCommonPrefix /\ Len(n.path) = lenCommonPrefix
          THEN PutResult(slot, TRUE)
          ELSE IF lenCommonPrefix > 0
          THEN PutResult(Some(newExtensionNode(SubSeq(n.path, 1, lenCommonPrefix), branch3)), FALSE)
          ELSE PutResult(Some(branch3), FALSE)
    ELSE PutResult(slot, TRUE)

RECURSIVE TriePut(_, _, _)

RECURSIVE PutPhPairs(_, _)
\* for _, phPair := range phPairs: putProofNode, returning its first error
PutPhPairs(t, phPairs) ==
  LET put(r) == IF r.panicked \/ r.out # Nil THEN r ELSE PutPhPairs(r.t, Tail(phPairs))
  IN  IF phPairs = <<>> THEN Called(t, FALSE, Nil)
      ELSE put(putProofNode(t, phPairs[1].path, phPairs[1].hash))

RECURSIVE PutKvPairs(_, _)
\* for _, kvPair := range kvPairs: t.Put, whose error is dropped
PutKvPairs(t, kvPairs) ==
  LET put(r) == IF r.panicked THEN r ELSE PutKvPairs(r.t, Tail(kvPairs))
  IN  IF kvPairs = <<>> THEN Called(t, FALSE, Nil)
      ELSE put(TriePut(t, kvPairs[1].key, kvPairs[1].value))

tryLoadPostStateProof(t, postStateProof, putKey) ==
  LET compared(kv, rootHashBefore) ==
        IF kv.panicked THEN kv
        ELSE IF RootHash(kv.t.root) = rootHashBefore
        THEN Called(kv.t, FALSE, Some("postStateProof changes Trie root hash"))
        ELSE Called(kv.t, FALSE, Nil)
      proved(ph, rootHashBefore) ==
        IF ph.panicked \/ ph.out # Nil THEN ph
        ELSE compared(PutKvPairs(ph.t, postStateProof.proofKVPairs), rootHashBefore)
  IN  IF t.mode # MODE_VERIFY_FRAUD_PROOF THEN Called(t, TRUE, Nil)
      ELSE proved(PutPhPairs(t, postStateProof.phPairs), RootHash(t.root))

\* Trie.Put with what it does to the fields of the Trie in each mode
TriePut(t, key, value) ==
  LET walked(t1, w) == Called([t1 EXCEPT !.root = w.slot], w.panicked, Nil)
      put(t1) == walked(t1, PutWalkProof(t1.root, newNibblesFromBytes(key), value, t1.mode))
      listed(t0) ==
        IF t0.mode = MODE_GENERATE_FRAUD_PROOF
        THEN put([t0 EXCEPT !.writeList = Append(t0.writeList, [key |-> key, value |-> value])])
        ELSE put(t0)
      loaded(r) ==
        IF r.panicked THEN r
        ELSE IF r.out # Nil
        THEN Called([r.t EXCEPT !.failedFraudProofReason = r.out,
                                !.mode = MODE_FAILED_FRAUD_PROOF],
                    FALSE, r.out)
        ELSE listed(r.t)
      last == Len(t.postStateProofs)
  IN  IF t.mode # MODE_NORMAL /\ t.mode # MODE_GENERATE_FRAUD_PROOF
           /\ t.mode # MODE_VERIFY_FRAUD_PROOF
      THEN Called(t, TRUE, Nil)
      ELSE IF t.mode # MODE_VERIFY_FRAUD_PROOF THEN listed(t)
      ELSE IF Len(t.postStateProofs) = 0
      THEN Called([t EXCEPT !.failedFraudProofReason =
                                Some("insufficient number of postStateProofs"),
                            !.mode = MODE_FAILED_FRAUD_PROOF],
                  FALSE, Some("insufficient number of postStateProofs"))
      ELSE loaded(tryLoadPostStateProof(
                    [t EXCEPT !.postStateProofs = SubSeq(t.postStateProofs, 1, last - 1)],
                    t.postStateProofs[last], key))

tryLoadPreState(t, preState) ==
  LET loaded(kv) ==
        IF kv.panicked THEN kv
        ELSE Called([kv.t EXCEPT !.mode = MODE_VERIFY_FRAUD_PROOF], FALSE, Nil)
      proved(ph) ==
        IF ph.panicked \/ ph.out # Nil THEN ph
        ELSE loaded(PutKvPairs(ph.t, preState.kvPairs))
  IN  IF t.mode # MODE_VERIFY_FRAUD_PROOF THEN Called(t, TRUE, Nil)
      ELSE proved(PutPhPairs(t, preState.phPairs))

LoadPreAndPostState(t, preState, newPostStateProofs, expectedPreStateHash) ==
  LET loaded(r) ==
        IF r.panicked THEN r
        ELSE IF r.out # Nil
        THEN Called([r.t EXCEPT !.failedFraudProofReason = r.out,
                                !.mode = MODE_FAILED_FRAUD_PROOF],
                    FALSE, r.out)
        ELSE IF RootHash(r.t.root) = expectedPreStateHash
        THEN Called([r.t EXCEPT !.failedFraudProofReason =
                       Some("RootHash after PreState insertion does not match expectedPreStateHash"),
                                !.mode = MODE_FAILED_FRAUD_PROOF],
                    FALSE,
                    Some("RootHash after PreState insertion does not match expectedPreStateHash"))
        ELSE Called([r.t EXCEPT !.postStateProofs = newPostStateProofs], FALSE, Nil)
  IN  IF t.mode # MODE_VERIFY_FRAUD_PROOF THEN Called(t, TRUE, Nil)
      ELSE loaded(tryLoadPreState(t, preState))

RECURSIVE encounteredProofNode(_, _)
\* the second result of getNormally: the walk for nibbles ends on a ProofNode
encounteredProofNode(slot, nibbles) ==
  IF slot = Nil THEN FALSE
  ELSE LET node == slot[1] IN
    IF node.kind = "leaf" THEN FALSE
    ELSE IF node.kind = "branch" THEN
      IF Len(nibbles) = 0 THEN FALSE
      ELSE encounteredProofNode(node.branches[nibbles[1] + 1], Tail(nibbles))
    ELSE IF node.kind = "ext" THEN
      LET matched == commonPrefixLength(node.path, nibbles) IN
      IF matched < Len(node.path) THEN FALSE
      ELSE encounteredProofNode(node.next, SubSeq(nibbles, matched + 1, Len(nibbles)))
    ELSE node.kind = "proof"

\* the value of the last pair of writeList with the key, or nil
getFrom(list, key) ==
  LET at == { i \in 1..Len(list) : list[i].key = key }
  IN  IF at = {} THEN Nil
      ELSE Some(list[CHOOSE i \in at : \A j \in at : j <= i].value)

\* Trie.Get with what it does to the fields of the Trie in each mode
TrieGet(t, key) ==
  LET got(value, encountered, written) ==
        IF t.mode = MODE_DEAD THEN Called(t, TRUE, Nil)
        ELSE IF t.mode = MODE_NORMAL \/ t.mode = MODE_LOAD_PRE_STATE THEN
          IF encountered THEN Called(t, TRUE, Nil) ELSE Called(t, FALSE, value)
        ELSE IF t.mode = MODE_GENERATE_FRAUD_PROOF THEN
          IF written # Nil THEN Called(t, FALSE, written)
          ELSE IF encountered THEN Called(t, TRUE, Nil)
          ELSE IF \A i \in 1..Len(t.readSet) : t.readSet[i].key # key
          THEN Called([t EXCEPT !.readSet =
                         Append(t.readSet, [key |-> key, value |-> OptBytes(value)])],
                      FALSE, value)
          ELSE Called(t, FALSE, value)
        ELSE IF t.mode = MODE_VERIFY_FRAUD_PROOF THEN
          IF encountered
          THEN Called([t EXCEPT !.failedFraudProofReason = Some("incomplete PreState"),
                                !.mode = MODE_FAILED_FRAUD_PROOF],
                      FALSE, Nil)
          ELSE Called(t, FALSE, value)
        ELSE Called(t, TRUE, Nil)
  IN  got(getNormally(t.root, newNibblesFromBytes(key)),
          encounteredProofNode(t.root, newNibblesFromBytes(key)),
          getFrom(t.writeList, key))

RECURSIVE getStrayTrieRootPath(_, _, _)
\* the for-loop of getStrayTrieRootPath with *node = slot: [panicked, path].
\* The type switch has no case for a nil node, which takes the default arm.
getStrayTrieRootPath(slot, accumulatedPath, targetPath) ==
  IF commonPrefixLength(accumulatedPath, targetPath) >= Len(targetPath)
  THEN [panicked |-> FALSE, path |-> targetPath]
  ELSE IF slot = Nil THEN [panicked |-> TRUE, path |-> <<>>]
  ELSE LET n == slot[1] IN
    IF n.kind = "leaf" THEN [panicked |-> FALSE, path |-> targetPath]
    ELSE IF n.kind = "proof" THEN [panicked |-> FALSE, path |-> accumulatedPath]
    ELSE IF n.kind = "ext"
    THEN getStrayTrieRootPath(n.next, accumulatedPath \o n.path, targetPath)
    ELSE LET nextNibble == targetPath[commonPrefixLength(accumulatedPath, targetPath) + 1]
         IN  IF n.branches[nextNibble + 1] = Nil
             THEN [panicked |-> FALSE, path |-> targetPath]
             ELSE getStrayTrieRootPath(n.branches[nextNibble + 1],
                                       Append(accumulatedPath, nextNibble), targetPath)

RECURSIVE ShadowLoop(_, _)
\* either loop of GetPreStateAndPostStateProofs over the pairs of readSet or
\* writeList.  shadowTrie is in MODE_VERIFY_FRAUD_PROOF without
\* postStateProofs, so its Put installs nothing and its root stays nil; with a
\* nil root getStrayTrieRootPath returns the key's own path or panics, and the
\* steps that collect proof pairs (getProofPairs, putProofNode) are not
\* reached: a pass that would reach them is reported as panicked.
ShadowLoop(shadowTrie, kvPairs) ==
  LET pass(strayTrieRootPath, put) ==
        IF strayTrieRootPath.panicked THEN Called(shadowTrie, TRUE, Nil)
        ELSE IF put.panicked THEN put
        ELSE IF strayTrieRootPath.path # newNibblesFromBytes(kvPairs[1].key)
        THEN Called(put.t, TRUE, Nil)
        ELSE ShadowLoop(put.t, Tail(kvPairs))
  IN  IF kvPairs = <<>> THEN Called(shadowTrie, FALSE, Nil)
      ELSE pass(getStrayTrieRootPath(shadowTrie.root, <<>>, newNibblesFromBytes(kvPairs[1].key)),
                TriePut(shadowTrie, kvPairs[1].key, kvPairs[1].value))

GetPreStateAndPostStateProofs(t) ==
  LET done(write) ==
        IF write.panicked THEN Called(t, TRUE, Nil)
        ELSE Called([t EXCEPT !.mode = MODE_DEAD], FALSE, Nil)
      readDone(read) ==
        IF read.panicked THEN Called(t, TRUE, Nil)
        ELSE done(ShadowLoop(read.t, t.writeList))
  IN  IF t.mode # MODE_GENERATE_FRAUD_PROOF THEN Called(t, TRUE, Nil)
      ELSE readDone(ShadowLoop(NewTrie(MODE_VERIFY_FRAUD_PROOF), t.readSet))

(***************************************************************************)
(* Inputs.  Keys are non-empty byte strings over 0x11, 0x12, 0x21 chosen   *)
(* so that the arms of Put are taken; values are non-empty; a Branch over  *)
(* short values is inlined in its parent, a Branch over two long values is *)
(* referenced by hash.                                                     *)
(***************************************************************************)
Keys == { <<17>>, <<18>>, <<33>>, <<17, 17>>, <<17, 18>>, <<17, 33>> }
ProofKeys == { <<17>>, <<18>>, <<33>>, <<17, 17>>, <<17, 33>> }
PairKeys == { <<17>>, <<18>>, <<17, 17>>, <<17, 18>> }
StaleKeys == { <<18>>, <<17, 18>>, <<17, 17, 18>> }
CrossKeys == { <<17>>, <<18>>, <<17, 17>>, <<17, 18>> }

ShortValue == <<7>>
RECURSIVE Repeat(_, _)
Repeat(b, n) == IF n = 0 THEN <<>> ELSE <<b>> \o Repeat(b, n - 1)
LongValue == Repeat(9, LongValueLen)
Values == { ShortValue, LongValue }

NibbleSeqs == UNION { [1..n -> 0..15] : n \in 0..MaxNibbles }

VARIABLES
  root,       \* Trie.root of the trie under test (an option of Node)
  mode,       \* Trie.mode
  held,       \* key -> option of the value of the last Put of key that returned
  written,    \* key -> option of the value of the last Put called for key
  reput,      \* Put was called for a key it had been called for before
  ret,        \* the last call on the trie and what it returned
  rootB,      \* root of a second, independent trie
  heldB,      \* as held, for the second trie
  writtenB,   \* as written, for the second trie
  savedHash,  \* option: the RootHash() the caller took and kept
  savedRoot,  \* the root at the time savedHash was taken
  putSince,   \* a Put has returned since savedHash was taken
  codec,      \* a run of the compact codec: input, encoding, decoding
  loop,       \* the for-loop of a Put in progress: *node, remainingPath, passes made
  readSet,                \* Trie.readSet
  writeList,              \* Trie.writeList
  postStateProofs,        \* Trie.postStateProofs
  failedFraudProofReason  \* Trie.failedFraudProofReason (an option of the message)

vars == << root, mode, held, written, reput, ret, rootB, heldB, writtenB,
           savedHash, savedRoot, putSince, codec, loop,
           readSet, writeList, postStateProofs, failedFraudProofReason >>

AllKeys == Keys \cup ProofKeys \cup PairKeys \cup StaleKeys \cup CrossKeys

NoMap == [k \in AllKeys |-> Nil]

NoRet == [op |-> "none", key |-> <<>>, val |-> <<>>, panicked |-> FALSE,
          value |-> Nil, found |-> FALSE, isNil |-> TRUE, kv |-> {},
          err |-> "", provedKey |-> <<>>, against |-> "",
          expected |-> Nil, loaded |-> [kvPairs |-> <<>>, phPairs |-> <<>>]]

CodecIdle == [stage |-> "idle", ns |-> <<>>, isLeafNode |-> FALSE, bytes |-> <<>>,
              outNs |-> <<>>, outLeaf |-> FALSE, panicked |-> FALSE]

\* no Put in progress
LoopIdle == [active |-> FALSE, key |-> <<>>, value |-> <<>>, node |-> Nil,
             remainingPath |-> <<>>, passes |-> 0, panicked |-> FALSE,
             installed |-> Nil]

\* NewTrie(MODE_NORMAL), twice; nothing saved; codec idle
Init ==
  /\ root = Nil /\ mode = MODE_NORMAL
  /\ held = NoMap /\ written = NoMap /\ reput = FALSE /\ ret = NoRet
  /\ rootB = Nil /\ heldB = NoMap /\ writtenB = NoMap
  /\ savedHash = Nil /\ savedRoot = Nil /\ putSince = FALSE
  /\ loop = LoopIdle
  /\ readSet = <<>> /\ writeList = <<>> /\ postStateProofs = <<>>
  /\ failedFraudProofReason = Nil
  /\ codec = CodecIdle

TrieBUnchanged == UNCHANGED << rootB, heldB, writtenB >>
SavedUnchanged == UNCHANGED << savedHash, savedRoot, putSince >>
LoopUnchanged == UNCHANGED loop
FraudUnchanged == UNCHANGED << readSet, writeList, postStateProofs, failedFraudProofReason >>

\* t.Put(k, v)
DoPut(k, v) ==
  LET r == Put(root, mode, k, v) IN
  /\ root' = r.slot
  /\ written' = [written EXCEPT ![k] = Some(v)]
  /\ held' = IF r.panicked THEN held ELSE [held EXCEPT ![k] = Some(v)]
  /\ reput' = (reput \/ written[k] # Nil)
  /\ ret' = [NoRet EXCEPT !.op = "put", !.key = k, !.val = v, !.panicked = r.panicked]
  /\ putSince' = (putSince \/ (savedHash # Nil /\ ~r.panicked))
  /\ UNCHANGED << mode, savedHash, savedRoot, codec >>
  /\ TrieBUnchanged /\ LoopUnchanged /\ FraudUnchanged

\* t.Get(k)
DoGet(k) ==
  LET r == Get(root, mode, k) IN
  /\ ret' = [NoRet EXCEPT !.op = "get", !.key = k, !.panicked = r.panicked, !.value = r.value]
  /\ UNCHANGED << root, mode, held, written, reput, codec >>
  /\ TrieBUnchanged /\ SavedUnchanged /\ LoopUnchanged /\ FraudUnchanged

\* proof, found := t.Prove(k)
DoProve(k) ==
  LET r == Prove(root, k) IN
  /\ ret' = [NoRet EXCEPT !.op = "prove", !.key = k, !.isNil = r.isNil, !.kv = r.kv,
                          !.found = r.found]
  /\ UNCHANGED << root, mode, held, written, reput, codec >>
  /\ TrieBUnchanged /\ SavedUnchanged /\ LoopUnchanged /\ FraudUnchanged

\* VerifyProof(t.RootHash(), k, proof) with the proof the last Prove(k) returned
DoVerify ==
  /\ ret.op = "prove" /\ ~ret.isNil
  /\ LET r == VerifyProof(RootHash(root), ret.key, ret.kv) IN
     ret' = [NoRet EXCEPT !.op = "verify", !.key = ret.key, !.provedKey = ret.key,
                          !.isNil = FALSE, !.kv = ret.kv, !.against = "current",
                          !.err = r.err, !.value = r.value]
  /\ UNCHANGED << root, mode, held, written, reput, codec >>
  /\ TrieBUnchanged /\ SavedUnchanged /\ LoopUnchanged /\ FraudUnchanged

\* rootHash := t.RootHash(), kept by the caller
DoRootHash ==
  /\ savedHash' = Some(RootHash(root))
  /\ savedRoot' = root
  /\ putSince' = FALSE
  /\ ret' = [NoRet EXCEPT !.op = "roothash"]
  /\ UNCHANGED << root, mode, held, written, reput, codec >>
  /\ TrieBUnchanged /\ LoopUnchanged /\ FraudUnchanged

\* VerifyProof(rootHash, k, proof): the kept root hash, the proof of the last Prove(k)
DoVerifySaved ==
  /\ ret.op = "prove" /\ ~ret.isNil /\ savedHash # Nil
  /\ LET r == VerifyProof(savedHash[1], ret.key, ret.kv) IN
     ret' = [NoRet EXCEPT !.op = "verify", !.key = ret.key, !.provedKey = ret.key,
                          !.isNil = FALSE, !.kv = ret.kv, !.against = "saved",
                          !.err = r.err, !.value = r.value]
  /\ UNCHANGED << root, mode, held, written, reput, codec >>
  /\ TrieBUnchanged /\ SavedUnchanged /\ LoopUnchanged /\ FraudUnchanged

\* Put(k, v) on the second trie
DoPutB(k, v) ==
  LET r == Put(rootB, MODE_NORMAL, k, v) IN
  /\ rootB' = r.slot
  /\ writtenB' = [writtenB EXCEPT ![k] = Some(v)]
  /\ heldB' = IF r.panicked THEN heldB ELSE [heldB EXCEPT ![k] = Some(v)]
  /\ UNCHANGED << root, mode, held, written, reput, ret, codec >>
  /\ SavedUnchanged /\ LoopUnchanged /\ FraudUnchanged

PutStep == \E k \in Keys, v \in Values : DoPut(k, v)
GetStep == \E k \in Keys : DoGet(k)

Next == PutStep \/ GetStep

Spec == Init /\ [][Next]_vars

(***************************************************************************)
(* A caller that proves keys and verifies each proof against the current   *)
(* root hash.                                                              *)
(***************************************************************************)
ProofPutStep == \E k \in ProofKeys, v \in Values : DoPut(k, v)
ProofProve == \E k \in ProofKeys : DoProve(k)
ProofVerify == DoVerify

NextProof == ProofPutStep \/ ProofProve \/ ProofVerify

SpecProof == Init /\ [][NextProof]_vars

(***************************************************************************)
(* Two tries filled independently.                                         *)
(***************************************************************************)
PairPutA == \E k \in PairKeys, v \in Values : DoPut(k, v)
PairPutB == \E k \in PairKeys, v \in Values : DoPutB(k, v)

NextPair == PairPutA \/ PairPutB

SpecPair == Init /\ [][NextPair]_vars

(***************************************************************************)
(* A caller that keeps a root hash, goes on putting, and verifies a later  *)
(* proof against the kept hash.                                            *)
(***************************************************************************)
StalePut == \E k \in StaleKeys, v \in Values : DoPut(k, v)
StaleRootHash == DoRootHash
StaleProve == \E k \in StaleKeys : DoProve(k)
StaleVerify == DoVerifySaved

NextStale == StalePut \/ StaleRootHash \/ StaleProve \/ StaleVerify

SpecStale == Init /\ [][NextStale]_vars

(***************************************************************************)
(* A caller that proves one key and verifies the proof for any key against *)
(* the current root hash.                                                  *)
(***************************************************************************)
\* VerifyProof(t.RootHash(), k, proof) with the proof the last Prove returned
DoVerifyKey(k) ==
  /\ ret.op = "prove" /\ ~ret.isNil
  /\ LET r == VerifyProof(RootHash(root), k, ret.kv) IN
     ret' = [NoRet EXCEPT !.op = "verify", !.key = k, !.provedKey = ret.key,
                          !.isNil = FALSE, !.kv = ret.kv, !.against = "current",
                          !.err = r.err, !.value = r.value]
  /\ UNCHANGED << root, mode, held, written, reput, codec >>
  /\ TrieBUnchanged /\ SavedUnchanged /\ LoopUnchanged /\ FraudUnchanged

CrossPut == \E k \in CrossKeys, v \in Values : DoPut(k, v)
CrossProve == \E k \in CrossKeys : DoProve(k)
CrossVerify == \E k \in CrossKeys : DoVerifyKey(k)

NextCross == CrossPut \/ CrossProve \/ CrossVerify

SpecCross == Init /\ [][NextCross]_vars

(***************************************************************************)
(* A caller that proves a key and verifies it with a bag that has lost one *)
(* of its entries.                                                         *)
(***************************************************************************)
\* proof.Delete(e.k); VerifyProof(t.RootHash(), k, proof) with the proof the
\* last Prove(k) returned
DoVerifyWithout(e) ==
  /\ ret.op = "prove" /\ ~ret.isNil /\ e \in ret.kv
  /\ LET kv == ret.kv \ {e}
         r == VerifyProof(RootHash(root), ret.key, kv)
     IN  ret' = [NoRet EXCEPT !.op = "verify", !.key = ret.key, !.provedKey = ret.key,
                              !.isNil = FALSE, !.kv = kv, !.against = "current",
                              !.err = r.err, !.value = r.value]
  /\ UNCHANGED << root, mode, held, written, reput, codec >>
  /\ TrieBUnchanged /\ SavedUnchanged /\ LoopUnchanged /\ FraudUnchanged

MissingPut == \E k \in ProofKeys, v \in Values : DoPut(k, v)
MissingProve == \E k \in ProofKeys : DoProve(k)
MissingVerify == \E e \in ret.kv : DoVerifyWithout(e)

NextMissing == MissingPut \/ MissingProve \/ MissingVerify

SpecMissing == Init /\ [][NextMissing]_vars

(***************************************************************************)
(* A caller of the fraud-proof modes: a Trie made by NewTrie in any mode   *)
(* NewTrie accepts, then Put, Get, GetPreStateAndPostStateProofs and       *)
(* LoadPreAndPostState in any order (a call in the wrong mode panics, and  *)
(* the caller recovers).  held and written are not kept here.              *)
(***************************************************************************)
MaxWriteList == 2

FraudKeys == { <<17>>, <<18>> }

\* the hash of some node that is not in the Trie
ProofHash == Keccak256(asSlots(newLeafNode(<<2>>, LongValue)))

FraudPHPairs == { [path |-> <<>>, hash |-> ProofHash],
                  [path |-> <<1, 2>>, hash |-> ProofHash] }

PreStates ==
  LET pairs == { [key |-> k, value |-> LongValue] : k \in FraudKeys } IN
  { [kvPairs |-> kv, phPairs |-> ph] :
      kv \in { <<>> } \cup { << p >> : p \in pairs }
               \cup { << p, q >> : p \in pairs, q \in pairs },
      ph \in { <<>> } \cup { << p >> : p \in FraudPHPairs } }

PostStateProofsIn ==
  { <<>> } \cup { << [phPairs |-> << p >>, proofKVPairs |-> <<>>] >> : p \in FraudPHPairs }

ExpectedHashes == { nilNodeHash, ProofHash }

ThisTrie ==
  [root |-> root, mode |-> mode, readSet |-> readSet, writeList |-> writeList,
   postStateProofs |-> postStateProofs,
   failedFraudProofReason |-> failedFraudProofReason]

\* the fields of the Trie after a call that answered r, and what the caller
\* keeps of the answer: an error of Put and LoadPreAndPostState, a value of Get
TrieBecomes(r, answer) ==
  /\ root' = r.t.root /\ mode' = r.t.mode
  /\ readSet' = r.t.readSet /\ writeList' = r.t.writeList
  /\ postStateProofs' = r.t.postStateProofs
  /\ failedFraudProofReason' = r.t.failedFraudProofReason
  /\ ret' = [answer EXCEPT !.panicked = r.panicked,
                           !.err = IF answer.op # "get" /\ r.out # Nil THEN r.out[1] ELSE "",
                           !.value = IF answer.op = "get" THEN r.out ELSE Nil]

\* t := NewTrie(m)
InitFraud ==
  /\ root = Nil
  /\ mode \in { MODE_NORMAL, MODE_GENERATE_FRAUD_PROOF, MODE_VERIFY_FRAUD_PROOF }
  /\ held = NoMap /\ written = NoMap /\ reput = FALSE /\ ret = NoRet
  /\ rootB = Nil /\ heldB = NoMap /\ writtenB = NoMap
  /\ savedHash = Nil /\ savedRoot = Nil /\ putSince = FALSE
  /\ loop = LoopIdle
  /\ readSet = <<>> /\ writeList = <<>> /\ postStateProofs = <<>>
  /\ failedFraudProofReason = Nil
  /\ codec = CodecIdle

\* err := t.Put(k, v)
FraudPut ==
  \E k \in FraudKeys, v \in Values :
    /\ Len(writeList) < MaxWriteList
    /\ TrieBecomes(TriePut(ThisTrie, k, v),
                   [NoRet EXCEPT !.op = "put", !.key = k, !.val = v])
    /\ UNCHANGED << held, written, reput, codec >>
    /\ TrieBUnchanged /\ SavedUnchanged /\ LoopUnchanged

\* value := t.Get(k)
FraudGet ==
  \E k \in FraudKeys :
    /\ TrieBecomes(TrieGet(ThisTrie, k), [NoRet EXCEPT !.op = "get", !.key = k])
    /\ UNCHANGED << held, written, reput, codec >>
    /\ TrieBUnchanged /\ SavedUnchanged /\ LoopUnchanged

\* t.GetPreStateAndPostStateProofs()
FraudGetProofs ==
  /\ TrieBecomes(GetPreStateAndPostStateProofs(ThisTrie), [NoRet EXCEPT !.op = "getproofs"])
  /\ UNCHANGED << held, written, reput, codec >>
  /\ TrieBUnchanged /\ SavedUnchanged /\ LoopUnchanged

\* err := t.LoadPreAndPostState(preState, proofs, expected)
FraudLoad ==
  \E preState \in PreStates, proofs \in PostStateProofsIn, expected \in ExpectedHashes :
    /\ TrieBecomes(LoadPreAndPostState(ThisTrie, preState, proofs, expected),
                   [NoRet EXCEPT !.op = "load", !.expected = Some(expected),
                                 !.loaded = preState])
    /\ UNCHANGED << held, written, reput, codec >>
    /\ TrieBUnchanged /\ SavedUnchanged /\ LoopUnchanged

NextFraud == FraudPut \/ FraudGet \/ FraudGetProofs \/ FraudLoad

SpecFraud == InitFraud /\ [][NextFraud]_vars

(***************************************************************************)
(* A caller whose values may be the empty byte string []byte{}.            *)
(***************************************************************************)
ValuesWithEmpty == { <<>>, ShortValue }

AnyValuePut == \E k \in PairKeys, v \in ValuesWithEmpty : DoPut(k, v)
AnyValueGet == \E k \in PairKeys : DoGet(k)

NextAnyValue == AnyValuePut \/ AnyValueGet

SpecAnyValue == Init /\ [][NextAnyValue]_vars

(***************************************************************************)
(* The compact codec on its own: encode a nibble path as asSlots does,     *)
(* decode it as nodeFromRaw does.                                          *)
(***************************************************************************)
InitCodec ==
  /\ root = Nil /\ mode = MODE_NORMAL
  /\ held = NoMap /\ written = NoMap /\ reput = FALSE /\ ret = NoRet
  /\ rootB = Nil /\ heldB = NoMap /\ writtenB = NoMap
  /\ savedHash = Nil /\ savedRoot = Nil /\ putSince = FALSE
  /\ loop = LoopIdle
  /\ readSet = <<>> /\ writeList = <<>> /\ postStateProofs = <<>>
  /\ failedFraudProofReason = Nil
  /\ \E ns \in NibbleSeqs, isLeafNode \in BOOLEAN :
       codec = [CodecIdle EXCEPT !.stage = "input", !.ns = ns, !.isLeafNode = isLeafNode]

CodecEncode ==
  /\ codec.stage = "input"
  /\ codec' = [codec EXCEPT !.stage = "encoded",
                 !.bytes = nibblesAsBytes(appendPrefixToNibbles(codec.ns, codec.isLeafNode))]
  /\ UNCHANGED << root, mode, held, written, reput, ret >>
  /\ TrieBUnchanged /\ SavedUnchanged /\ LoopUnchanged /\ FraudUnchanged

CodecDecode ==
  /\ codec.stage = "encoded"
  /\ LET r == removePrefixFromNibbles(newNibblesFromBytes(codec.bytes)) IN
     codec' = [codec EXCEPT !.stage = "decoded", !.outNs = r.ns,
                 !.outLeaf = r.isLeafNode, !.panicked = r.panicked]
  /\ UNCHANGED << root, mode, held, written, reput, ret >>
  /\ TrieBUnchanged /\ SavedUnchanged /\ LoopUnchanged /\ FraudUnchanged

NextCodec == CodecEncode \/ CodecDecode

SpecCodec == InitCodec /\ [][NextCodec]_vars

(***************************************************************************)
(* Put taken one pass of its for-loop at a time.                           *)
(***************************************************************************)
\* t.Put(k, v) is called: the mode check, node := &t.root,
\* remainingPath := newNibbles(key)
LoopCall(k, v) ==
  /\ ~loop.active
  /\ mode \in {MODE_NORMAL, MODE_GENERATE_FRAUD_PROOF, MODE_VERIFY_FRAUD_PROOF}
  /\ loop' = [LoopIdle EXCEPT !.active = TRUE, !.key = k, !.value = v, !.node = root,
                              !.remainingPath = newNibblesFromBytes(k)]
  /\ ret' = [NoRet EXCEPT !.op = "putting", !.key = k, !.val = v]
  /\ UNCHANGED << root, mode, held, written, reput, codec >>
  /\ TrieBUnchanged /\ SavedUnchanged /\ FraudUnchanged

\* one pass of the for-loop; the pass that returns or panics ends the call,
\* and loop then keeps the *node and remainingPath that pass found and the
\* node it installed
LoopIterate ==
  /\ loop.active
  /\ LET p == PutIteration(loop.node, loop.remainingPath, loop.value)
         r == Put(root, mode, loop.key, loop.value)
     IN
     IF p.returned \/ p.panicked
     THEN /\ loop' = [loop EXCEPT !.active = FALSE, !.installed = p.node,
                        !.passes = loop.passes + 1, !.panicked = p.panicked]
          /\ root' = r.slot
          /\ written' = [written EXCEPT ![loop.key] = Some(loop.value)]
          /\ held' = IF p.panicked THEN held
                     ELSE [held EXCEPT ![loop.key] = Some(loop.value)]
          /\ reput' = (reput \/ written[loop.key] # Nil)
          /\ ret' = [NoRet EXCEPT !.op = "put", !.key = loop.key, !.val = loop.value,
                                  !.panicked = p.panicked]
     ELSE /\ loop' = [loop EXCEPT !.node = p.node, !.remainingPath = p.remainingPath,
                        !.passes = loop.passes + 1]
          /\ UNCHANGED << root, held, written, reput, ret >>
  /\ UNCHANGED << mode, codec >>
  /\ TrieBUnchanged /\ SavedUnchanged /\ FraudUnchanged

LoopPut == \E k \in Keys, v \in Values : LoopCall(k, v)
LoopPass == LoopIterate

NextLoop == LoopPut \/ LoopPass

SpecLoop == Init /\ [][NextLoop]_vars

(***************************************************************************)
(* A caller whose values make a Leaf serialize to one byte less than, and  *)
(* to exactly, the length from which a child is referenced by hash.        *)
(***************************************************************************)
\* a Leaf with an empty path and a value of n bytes serializes to n + 3 bytes
EdgeValues == { Repeat(9, HashRefMinLen - 4), Repeat(9, HashRefMinLen - 3) }

EmbedPut == \E k \in PairKeys, v \in EdgeValues : DoPut(k, v)
EmbedRootHash == DoRootHash

NextEmbed == EmbedPut \/ EmbedRootHash

SpecEmbed == Init /\ [][NextEmbed]_vars


(***************************************************************************)
(* Properties.                                                             *)
(***************************************************************************)
Nibbles(key) == newNibblesFromBytes(key)

\* what t.Get(key) returns in the current state
Lookup(key) == getNormally(root, Nibbles(key))

\* C1: once Put has been called once for each pair of a set of pairs with
\* distinct keys, in any order, Get(k) returns v for every pair (k, v).
C1_GetReturnsEveryPut ==
  ~reput => \A k \in AllKeys : written[k] # Nil => Lookup(k) = written[k]

\* C2: no call of Put or Get panics or reports an error.
C2_PutGetNeverFail == ret.op \in {"put", "get"} => ~ret.panicked

\* C3: two tries on which the Put calls made define the same final key -> value
\* map have the same root hash.
C3_SameMapSameRootHash ==
  written = writtenB => RootHash(root) = RootHash(rootB)

\* C4: a Put(k, v1) directly followed by a Put(k, v2) leaves Get(k) = v2.
C4_OverwriteReturnsLast ==
  [][(ret.op = "put" /\ ret'.op = "put" /\ ret'.key = ret.key)
       => getNormally(root', Nibbles(ret'.key)) = Some(ret'.val)]_vars

\* C5: two tries that hold different sets of (key, value) pairs have different
\* root hashes.
C5_DistinctMapsDistinctRootHash ==
  held # heldB => RootHash(root) # RootHash(rootB)

\* C5 witness: both tries hold the same two or more keys and differ in one value
C5_Witness ==
  /\ \A k \in AllKeys : (held[k] = Nil) = (heldB[k] = Nil)
  /\ Cardinality({k \in AllKeys : held[k] # Nil}) >= 3
  /\ Cardinality({k \in AllKeys : held[k] # heldB[k]}) = 1
  /\ RootHash(root) # RootHash(rootB)

\* C6: for a key k that holds v, Prove(k) yields a proof, and VerifyProof of
\* that proof against the current root hash returns v without error.
C6_ProofVerifies ==
  /\ (ret.op = "prove" /\ held[ret.key] # Nil) => (~ret.isNil /\ ret.found)
  /\ (ret.op = "verify" /\ ret.against = "current" /\ held[ret.key] # Nil)
       => (ret.err = "" /\ ret.value = held[ret.key])

\* C6 witness: a verified proof whose walk followed a reference by hash
C6_Witness ==
  /\ ret.op = "verify" /\ ret.against = "current" /\ held[ret.key] # Nil
  /\ ret.err = "" /\ ret.value = held[ret.key]
  /\ Cardinality(ret.kv) >= 3
  /\ \E e \in ret.kv : \E i \in 1..Len(e.v.items) : e.v.items[i].t = "hash"

\* the nodes (as slots) on the walk of Get, Prove and Put from slot along nibbles
RECURSIVE WalkSlots(_, _)
WalkSlots(slot, nibbles) ==
  IF slot = Nil THEN {}
  ELSE LET node == slot[1] IN
    IF node.kind = "branch" THEN
      IF nibbles = <<>> THEN {slot}
      ELSE {slot} \cup WalkSlots(node.branches[nibbles[1] + 1], Tail(nibbles))
    ELSE IF node.kind = "ext" /\ IsPrefixOf(node.path, nibbles) THEN
      {slot} \cup WalkSlots(node.next, SubSeq(nibbles, Len(node.path) + 1, Len(nibbles)))
    ELSE {slot}

RECURSIVE EndsOnBranch(_, _)
EndsOnBranch(slot, nibbles) ==
  IF slot = Nil THEN FALSE
  ELSE LET node == slot[1] IN
    IF node.kind = "branch" THEN
      IF nibbles = <<>> THEN TRUE
      ELSE EndsOnBranch(node.branches[nibbles[1] + 1], Tail(nibbles))
    ELSE IF node.kind = "ext" /\ IsPrefixOf(node.path, nibbles) THEN
      EndsOnBranch(node.next, SubSeq(nibbles, Len(node.path) + 1, Len(nibbles)))
    ELSE FALSE

\* C8 as stated: for a key the trie does not hold, Prove returns no proof and
\* found = false.
C8_AbsentKeyNoProof ==
  (ret.op = "prove" /\ held[ret.key] = Nil) => (ret.isNil /\ ~ret.found)

\* C8 amended: for a key the trie does not hold, Prove returns found = false,
\* and it returns no proof unless the walk ends on a Branch with the key
\* exhausted (a Branch without value), where it returns the bag of the walk.
C8_AbsentKeyNotFound ==
  (ret.op = "prove" /\ held[ret.key] = Nil)
     => (/\ ~ret.found
         /\ ret.isNil = ~EndsOnBranch(root, Nibbles(ret.key)))

\* C8 witness: Prove of an absent key that extends a stored key, in a trie
\* of two keys or more, has diverged on a Leaf and returned no proof
C8_Witness ==
  /\ ret.op = "prove" /\ held[ret.key] = Nil /\ root # Nil
  /\ ret.isNil /\ ~ret.found
  /\ Cardinality({k \in AllKeys : held[k] # Nil}) >= 2
  /\ \E k \in AllKeys : held[k] # Nil /\ IsPrefixOf(k, ret.key)

\* C9: Get of a key that no returned Put has stored reports nil, without
\* failing, also for proper prefixes and proper extensions of stored keys.
C9_AbsentKeyGetsNil ==
  (ret.op = "get" /\ held[ret.key] = Nil) => (ret.value = Nil /\ ~ret.panicked)

\* C9 witness: Get of an absent key that is a proper prefix of two stored keys
\* (the walk ends on a Branch without value) has returned nil
C9_Witness ==
  /\ ret.op = "get" /\ held[ret.key] = Nil /\ ret.value = Nil
  /\ Cardinality({k \in AllKeys : held[k] # Nil /\ IsPrefixOf(ret.key, k)}) >= 2

\* C10: decoding the compact encoding of (N, isLeaf) returns (N, isLeaf).
C10_CompactRoundTrip ==
  codec.stage = "decoded"
     => (~codec.panicked /\ codec.outNs = codec.ns /\ codec.outLeaf = codec.isLeafNode)

\* C10 witness: an odd-length leaf path went through both conversions
C10_Witness ==
  /\ codec.stage = "decoded" /\ codec.isLeafNode /\ Len(codec.ns) % 2 = 1
  /\ codec.outNs = codec.ns /\ codec.outLeaf

\* C11: RootHash of a trie on which no Put has been performed returns the
\* constant nilNodeHash, the Keccak-256 of the RLP encoding of the empty
\* byte string.
C11_EmptyTrieRootHash ==
  (ret.op = "roothash" /\ written = NoMap)
     => (savedHash = Some(nilNodeHash) /\ savedHash = Some(Keccak256(BytesItem(<<>>))))

\* C11 witness: RootHash was called on the trie as NewTrie made it
C11_Witness ==
  /\ ret.op = "roothash" /\ written = NoMap /\ root = Nil
  /\ savedHash = Some(nilNodeHash)

(***************************************************************************)
(* The trie an Ethereum-conformant implementation holds for a set of       *)
(* (nibble path, value) pairs with distinct paths: one pair is a Leaf; a   *)
(* common prefix of all paths is an Extension over a Branch; a Branch      *)
(* holds the value of the pair whose path ends there and, per nibble, the  *)
(* trie of the pairs that go on with that nibble.                          *)
(***************************************************************************)
PairsOf(h) ==
  { [path |-> newNibblesFromBytes(k), value |-> h[k][1]] : k \in {kk \in AllKeys : h[kk] # Nil} }

\* the longest common prefix of the paths of a non-empty set of pairs
EthCommonPrefix(E) ==
  LET p == (CHOOSE e \in E : TRUE).path
      shared == { i \in 0..Len(p) :
                    \A e \in E : Len(e.path) >= i /\ SubSeq(e.path, 1, i) = SubSeq(p, 1, i) }
      n == CHOOSE i \in shared : \A j \in shared : j <= i
  IN  SubSeq(p, 1, n)

RECURSIVE EthNode(_)
EthChild(E, nibble) ==
  LET S == { [path |-> Tail(e.path), value |-> e.value] :
               e \in {ee \in E : ee.path # <<>> /\ ee.path[1] = nibble} }
  IN  IF S = {} THEN Nil ELSE Some(EthNode(S))

EthBranch(E) ==
  [kind |-> "branch", path |-> <<>>,
   value |-> IF \E e \in E : e.path = <<>>
             THEN Some((CHOOSE e \in E : e.path = <<>>).value) ELSE Nil,
   branches |-> << EthChild(E, 0), EthChild(E, 1), EthChild(E, 2), EthChild(E, 3),
                   EthChild(E, 4), EthChild(E, 5), EthChild(E, 6), EthChild(E, 7),
                   EthChild(E, 8), EthChild(E, 9), EthChild(E, 10), EthChild(E, 11),
                   EthChild(E, 12), EthChild(E, 13), EthChild(E, 14), EthChild(E, 15) >>,
   next |-> Nil]

EthNode(E) ==
  IF Cardinality(E) = 1
  THEN LET e == CHOOSE ee \in E : TRUE IN newLeafNode(e.path, e.value)
  ELSE LET c == EthCommonPrefix(E) IN
       IF c = <<>> THEN EthBranch(E)
       ELSE newExtensionNode(c,
              EthBranch({ [path |-> SubSeq(e.path, Len(c) + 1, Len(e.path)), value |-> e.value] : e \in E }))

\* the root slot of the conformant trie for the map h
EthRoot(h) == IF PairsOf(h) = {} THEN Nil ELSE Some(EthNode(PairsOf(h)))

\* C12: after Puts, the root hash of the trie equals the root hash of the
\* Ethereum-conformant trie for the final key -> value map of those Puts.
C12_RootHashIsConformant == RootHash(root) = RootHash(EthRoot(written))

\* the walk of Put from slot along nibbles ends strictly inside the path of
\* an Extension: the remaining path is a proper prefix of the Extension's path
RECURSIVE EndsInsideExtension(_, _)
EndsInsideExtension(slot, nibbles) ==
  IF slot = Nil THEN FALSE
  ELSE LET node == slot[1] IN
    IF node.kind = "branch" THEN
      nibbles # <<>> /\ EndsInsideExtension(node.branches[nibbles[1] + 1], Tail(nibbles))
    ELSE IF node.kind = "ext" THEN
      IF IsPrefixOf(node.path, nibbles)
      THEN EndsInsideExtension(node.next, SubSeq(nibbles, Len(node.path) + 1, Len(nibbles)))
      ELSE IsPrefixOf(nibbles, node.path)
    ELSE FALSE

\* the trie TestPutExtensionShorterAllMatched expects of such a Put:
\* Extension(matched nibbles) -> Branch with the new value and, at the next
\* nibble of the old path, the Extension's old child (wrapped in an Extension
\* for any further old nibbles)
RECURSIVE PutExtensionShorter(_, _, _)
PutExtensionShorter(slot, nibbles, value) ==
  LET node == slot[1] IN
  IF node.kind = "branch" THEN
    Some([node EXCEPT !.branches[nibbles[1] + 1] =
            PutExtensionShorter(node.branches[nibbles[1] + 1], Tail(nibbles), value)])
  ELSE IF IsPrefixOf(node.path, nibbles) THEN
    Some([node EXCEPT !.next =
            PutExtensionShorter(node.next, SubSeq(nibbles, Len(node.path) + 1, Len(nibbles)), value)])
  ELSE
    LET m == Len(nibbles)
        rest == SubSeq(node.path, m + 2, Len(node.path))
        old == IF rest = <<>> THEN node.next[1] ELSE newExtensionNode(rest, node.next[1])
        branch == setBranch(setValue(newBranchNode, value), node.path[m + 1], old)
    IN  IF m > 0 THEN Some(newExtensionNode(nibbles, branch)) ELSE Some(branch)

\* C13: a Put whose remaining path ends strictly inside an Extension's path
\* leaves a trie whose root hash is that of the trie with the Extension
\* split at that point and the new value on the Branch.
C13_PutInsideExtensionSplits ==
  [][(ret'.op = "put" /\ EndsInsideExtension(root, Nibbles(ret'.key)))
       => RootHash(root') = RootHash(PutExtensionShorter(root, Nibbles(ret'.key), ret'.val))]_vars

\* C14: Put(k, v) leaves what Get(k') returns unchanged for every key k'
\* other than k.
C14_PutLeavesOtherKeys ==
  [][ret'.op = "put"
       => \A k \in AllKeys \ {ret'.key} :
            getNormally(root', Nibbles(k)) = getNormally(root, Nibbles(k))]_vars

\* C14 witness: a Put has returned on a trie of three keys or more whose root
\* is a Branch over a relocated Extension or Branch, and every other key
\* stored is still got
C14_Witness ==
  /\ ret.op = "put" /\ ~ret.panicked
  /\ root # Nil /\ root[1].kind = "branch"
  /\ \E i \in 1..16 : root[1].branches[i] # Nil /\ root[1].branches[i][1].kind \in {"ext", "branch"}
  /\ Cardinality({k \in AllKeys : held[k] # Nil}) >= 3
  /\ \A k \in AllKeys \ {ret.key} : Lookup(k) = held[k]

\* C15: VerifyProof(R, k', Prove(k)) against the current root hash R either
\* fails or returns the value Get(k') returns.
C15_ProofYieldsNoOtherValue ==
  (ret.op = "verify" /\ ret.against = "current" /\ ret.err = "")
     => ret.value = Lookup(ret.key)

\* C15 witness: the proof of one key has verified another key, stored on the
\* walk to the first, to its value
C15_Witness ==
  /\ ret.op = "verify" /\ ret.against = "current" /\ ret.key # ret.provedKey
  /\ ret.err = "" /\ ret.value # Nil /\ ret.value = held[ret.key]

\* every node of the trie under slot
RECURSIVE Nodes(_)
Nodes(slot) ==
  IF slot = Nil THEN {}
  ELSE LET node == slot[1] IN
    IF node.kind = "branch"
    THEN {node} \cup UNION { Nodes(node.branches[i]) : i \in 1..16 }
    ELSE IF node.kind = "ext" THEN {node} \cup Nodes(node.next)
    ELSE {node}

\* child slots filled plus a present value
Occupants(b) ==
  Cardinality({ i \in 1..16 : b.branches[i] # Nil }) + (IF hasValue(b) THEN 1 ELSE 0)

\* C16: the next of every Extension is a Branch: never a Leaf, never an
\* Extension, never empty.
C16_ExtensionNextIsBranch ==
  \A n \in Nodes(root) : n.kind = "ext" => (n.next # Nil /\ n.next[1].kind = "branch")

\* C16 witness: a trie with two Extensions, one below the other, each over a
\* Branch
C16_Witness ==
  /\ Cardinality({ n \in Nodes(root) : n.kind = "ext" }) >= 2
  /\ \A n \in Nodes(root) : n.kind = "ext" => (n.next # Nil /\ n.next[1].kind = "branch")

\* C17: no Extension has an empty path.
C17_NoEmptyExtensionPath ==
  \A n \in Nodes(root) : n.kind = "ext" => n.path # <<>>

\* C17 witness: the root is a Branch that holds an Extension (the rest of a
\* split Extension, or the common prefix of a split Leaf) with a path
C17_Witness ==
  /\ root # Nil /\ root[1].kind = "branch"
  /\ \E i \in 1..16 :
       /\ root[1].branches[i] # Nil
       /\ root[1].branches[i][1].kind = "ext"
       /\ root[1].branches[i][1].path # <<>>

\* C18: every Branch has two occupants or more, counting filled child slots
\* and a present value.
C18_BranchHasTwoOccupants ==
  \A n \in Nodes(root) : n.kind = "branch" => Occupants(n) >= 2

\* C18 witness: a trie of two Branches or more, one of them with exactly two
\* occupants of which one is its value
C18_Witness ==
  /\ Cardinality({ n \in Nodes(root) : n.kind = "branch" }) >= 2
  /\ \E n \in Nodes(root) : n.kind = "branch" /\ hasValue(n) /\ Occupants(n) = 2

\* C19: after any Put, no Leaf of the trie has an empty value.
C19_NoLeafWithEmptyValue ==
  \A n \in Nodes(root) : n.kind = "leaf" => (n.value # Nil /\ n.value[1] # <<>>)

\* an Extension whose next is a Branch
WrapsBranch(slot) ==
  slot # Nil /\ slot[1].kind = "ext" /\ slot[1].next # Nil /\ slot[1].next[1].kind = "branch"

\* the state machine per slot: what a slot that held before may hold after
AllowedSlotStep(before, after) ==
  IF before = Nil THEN after # Nil /\ after[1].kind = "leaf"
  ELSE IF after = Nil THEN FALSE
  ELSE IF before[1].kind = "leaf"
       THEN after[1].kind \in {"leaf", "branch"} \/ WrapsBranch(after)
  ELSE IF before[1].kind = "branch" THEN after[1].kind = "branch"
  ELSE after[1].kind \in {"ext", "branch"}

\* every slot Put operates on along nibbles, from slot on, takes an allowed step
RECURSIVE SlotStepsAllowed(_, _, _)
SlotStepsAllowed(before, after, nibbles) ==
  /\ AllowedSlotStep(before, after)
  /\ IF before = Nil \/ after = Nil THEN TRUE
     ELSE IF before[1].kind = "branch" /\ after[1].kind = "branch" /\ nibbles # <<>>
     THEN SlotStepsAllowed(before[1].branches[nibbles[1] + 1],
                           after[1].branches[nibbles[1] + 1], Tail(nibbles))
     ELSE IF before[1].kind = "ext" /\ IsPrefixOf(before[1].path, nibbles)
             /\ after[1].kind = "ext"
     THEN SlotStepsAllowed(before[1].next, after[1].next,
                           SubSeq(nibbles, Len(before[1].path) + 1, Len(nibbles)))
     ELSE TRUE

\* C20: a Put step changes the kind of node in each slot it operates on, the
\* root slot first, only along Empty -> Leaf, Leaf -> Leaf | Branch |
\* Extension wrapping Branch, Branch -> Branch, Extension -> Extension |
\* Branch | Extension wrapping Branch.
C20_SlotKindSteps ==
  [][ret'.op = "put" => SlotStepsAllowed(root, root', Nibbles(ret'.key))]_vars

\* C20 witness: a slot holds a Branch that a later Put has passed through
\* (a Branch is made with two occupants and has three)
C20_Witness ==
  /\ ret.op = "put" /\ ~ret.panicked
  /\ \E n \in Nodes(root) : n.kind = "branch" /\ Occupants(n) >= 3


\* C21: every pass of Put's for-loop either installs a node and returns, or
\* leaves a strictly shorter remaining path to the next pass, and a Put of an
\* n-byte key has made at most 2n+1 passes.
C21_PutPassesProgress ==
  [][ (loop.active /\ loop' # loop) =>
        /\ \/ ~loop'.active /\ ~loop'.panicked
           \/ loop'.active /\ Len(loop'.remainingPath) < Len(loop.remainingPath)
        /\ loop'.passes <= 2 * Len(loop.key) + 1 ]_vars


RECURSIVE SlotAt(_, _)
\* the slot the walk from `slot` stands on once it has consumed `nibbles`
SlotAt(slot, nibbles) ==
  IF Len(nibbles) = 0 \/ slot = Nil THEN slot
  ELSE LET n == slot[1] IN
    IF n.kind = "branch" THEN SlotAt(n.branches[nibbles[1] + 1], Tail(nibbles))
    ELSE IF n.kind = "ext" /\ commonPrefixLength(n.path, nibbles) = Len(n.path)
    THEN SlotAt(n.next, SubSeq(nibbles, Len(n.path) + 1, Len(nibbles)))
    ELSE Nil

\* the nibbles of loop.key the passes before the last one have consumed
LoopConsumed ==
  SubSeq(Nibbles(loop.key), 1, Len(Nibbles(loop.key)) - Len(loop.remainingPath))

\* the last pass of the Put that has just ended found a Leaf whose path is
\* not the remaining path
LoopSplitLeaf ==
  /\ ~loop.active /\ loop.passes > 0 /\ ~loop.panicked
  /\ loop.node # Nil /\ loop.node[1].kind = "leaf"
  /\ loop.node[1].path # loop.remainingPath

\* Branch B over Leaf{Lp, Lv} and the new pair (K, value), m their common
\* prefix length, as the split of a Leaf is described
IsLeafSplitBranch(B, Lp, Lv, K, value, m) ==
  /\ B.kind = "branch"
  /\ IF m = Len(Lp) THEN B.value = Some(Lv)
     ELSE B.branches[Lp[m + 1] + 1] = Some(newLeafNode(SubSeq(Lp, m + 2, Len(Lp)), Lv))
  /\ IF m = Len(K) THEN B.value = Some(value)
     ELSE B.branches[K[m + 1] + 1] = Some(newLeafNode(SubSeq(K, m + 2, Len(K)), value))
  /\ (m < Len(Lp) /\ m < Len(K)) => B.value = Nil
  /\ \A i \in 0..15 :
       (~(m < Len(Lp) /\ Lp[m + 1] = i) /\ ~(m < Len(K) /\ K[m + 1] = i))
         => B.branches[i + 1] = Nil

\* C22: when Put reaches Leaf{Lp, Lv} with a remaining path K other than Lp,
\* m their common prefix length, the slot becomes a Branch B, wrapped in
\* Extension{Lp[0..m]} exactly when m > 0; the old value is B.value if
\* m = len(Lp) and else sits in Leaf{Lp[m+1..]} at child Lp[m]; the new value
\* is B.value if m = len(K) and else sits in Leaf{K[m+1..]} at child K[m];
\* every other child slot of B is empty.
C22_LeafSplitShape ==
  LoopSplitLeaf =>
    LET Lp == loop.node[1].path
        Lv == loop.node[1].value[1]
        K == loop.remainingPath
        m == commonPrefixLength(Lp, K)
        now == SlotAt(root, LoopConsumed)
    IN  /\ now # Nil
        /\ IF m > 0
           THEN /\ now[1].kind = "ext" /\ now[1].path = SubSeq(Lp, 1, m)
                /\ now[1].next # Nil
                /\ IsLeafSplitBranch(now[1].next[1], Lp, Lv, K, loop.value, m)
           ELSE IsLeafSplitBranch(now[1], Lp, Lv, K, loop.value, m)

\* a Leaf was split with a common prefix and the new key ending on the Branch
C22_Witness ==
  /\ LoopSplitLeaf
  /\ LoopConsumed # <<>>
  /\ commonPrefixLength(loop.node[1].path, loop.remainingPath) = Len(loop.remainingPath)
  /\ Len(loop.remainingPath) > 0

\* the Branch the split of a Leaf has built: what the last pass installed,
\* or the next of the Extension it installed
LoopSplitBranch ==
  IF loop.installed[1].kind = "ext" THEN loop.installed[1].next[1] ELSE loop.installed[1]

\* the tail leaves under a Branch
TailLeaves(b) ==
  { i \in 0..15 : b.branches[i + 1] # Nil /\ b.branches[i + 1][1].kind = "leaf" }

\* C23 as stated: whenever Put splits a Leaf, a Branch-value assignment fires
\* (the Branch gets the old or the new value) and at least one tail leaf is
\* created.
C23_SplitSetsValueAndTail ==
  LoopSplitLeaf =>
    /\ LoopSplitBranch.value # Nil
    /\ TailLeaves(LoopSplitBranch) # {}

\* C23: whenever Put splits a Leaf, at least one tail leaf is created, and a
\* Branch-value assignment fires exactly when one of the two paths is a prefix
\* of the other.
C23_SplitSetsValueIffPrefix ==
  LoopSplitLeaf =>
    LET Lp == loop.node[1].path
        K == loop.remainingPath
        m == commonPrefixLength(Lp, K)
    IN  /\ TailLeaves(LoopSplitBranch) # {}
        /\ (LoopSplitBranch.value # Nil) <=> (m = Len(Lp) \/ m = Len(K))

\* a Leaf was split whose path and the remaining path part ways: two tail
\* leaves and no value on the Branch
C23_Witness ==
  /\ LoopSplitLeaf
  /\ commonPrefixLength(loop.node[1].path, loop.remainingPath) < Len(loop.node[1].path)
  /\ commonPrefixLength(loop.node[1].path, loop.remainingPath) < Len(loop.remainingPath)
  /\ Cardinality(TailLeaves(LoopSplitBranch)) = 2

\* the last pass of the Put that has just ended found an Extension whose path
\* is not matched in full by the remaining path
LoopSplitExtension ==
  /\ ~loop.active /\ loop.passes > 0
  /\ loop.node # Nil /\ loop.node[1].kind = "ext"
  /\ commonPrefixLength(loop.node[1].path, loop.remainingPath) < Len(loop.node[1].path)

\* Branch B over Extension{Ep, next} and the new pair (K, value), m their
\* common prefix length, as the split of an Extension is described
IsExtensionSplitBranch(B, Ep, next, K, value, m) ==
  /\ B.kind = "branch"
  /\ B.branches[Ep[m + 1] + 1] =
       IF m + 1 = Len(Ep) THEN next
       ELSE Some(newExtensionNode(SubSeq(Ep, m + 2, Len(Ep)), next[1]))
  /\ B.branches[K[m + 1] + 1] = Some(newLeafNode(SubSeq(K, m + 2, Len(K)), value))

\* C24: when Put reaches Extension{Ep, next} with remaining path K and common
\* prefix length m < len(Ep), the slot becomes a Branch B, wrapped in
\* Extension{Ep[0..m]} exactly when m > 0, whose child at Ep[m] is next itself
\* if Ep[m+1..] is empty and Extension{Ep[m+1..], next} otherwise, and whose
\* child at K[m] is Leaf{K[m+1..], value}; the subtree under next is as it was.
C24_ExtensionSplitShape ==
  LoopSplitExtension =>
    LET Ep == loop.node[1].path
        next == loop.node[1].next
        K == loop.remainingPath
        m == commonPrefixLength(Ep, K)
        now == SlotAt(root, LoopConsumed)
    IN  /\ ~loop.panicked
        /\ now # Nil
        /\ IF m > 0
           THEN /\ now[1].kind = "ext" /\ now[1].path = SubSeq(Ep, 1, m)
                /\ now[1].next # Nil
                /\ IsExtensionSplitBranch(now[1].next[1], Ep, next, K, loop.value, m)
           ELSE IsExtensionSplitBranch(now[1], Ep, next, K, loop.value, m)

\* the children of a Branch or an Extension, each with the slot of the
\* node's serialized form that refers to it
ChildRefsOf(n) ==
  IF n.kind = "branch"
  THEN { [child |-> n.branches[i][1], ref |-> asSlots(n).items[i]] :
           i \in { j \in 1..16 : n.branches[j] # Nil } }
  ELSE IF n.kind = "ext"
  THEN { [child |-> n.next[1], ref |-> asSlots(n).items[2]] }
  ELSE {}

\* C25: in the serialized form of every Branch and Extension, each child
\* reference is the child's 32-byte hash when the child's own serialization
\* is at least 32 bytes long (exactly 32 included), and the child's canonical
\* form inlined when it is shorter.
C25_ChildReferenceByLength ==
  \A n \in Nodes(root) : \A c \in ChildRefsOf(n) :
    LET serialized == serializeNode(Some(c.child)) IN
    IF RlpLen(serialized) >= 32
    THEN c.ref.t = "hash" /\ c.ref = Keccak256(serialized)
    ELSE c.ref.t = "list" /\ c.ref = asSlots(c.child)

\* a Branch with a child of exactly 32 bytes and a child of 31 bytes
C25_Witness ==
  \E n \in Nodes(root) :
    /\ n.kind = "branch"
    /\ \E c \in ChildRefsOf(n) : RlpLen(asSlots(c.child)) = 32 /\ c.ref.t = "hash"
    /\ \E c \in ChildRefsOf(n) : RlpLen(asSlots(c.child)) = 31 /\ c.ref.t = "list"

\* C26: the bag Prove(key) returns holds, for every node on the walk from the
\* root to the node the walk ends on, that node's serialization under that
\* node's hash; in particular it holds the root node under RootHash().
C26_ProofHoldsWalk ==
  (ret.op = "prove" /\ ~ret.isNil) =>
    /\ \A slot \in WalkSlots(root, Nibbles(ret.key)) :
         /\ ProofHas(ret.kv, ComputeHash(slot[1]))
         /\ ProofGet(ret.kv, ComputeHash(slot[1])) = serializeNode(slot)
    /\ ProofHas(ret.kv, RootHash(root))
    /\ ProofGet(ret.kv, RootHash(root)) = serializeNode(root)

\* Prove returned a bag for a walk over three nodes or more, one of them
\* shorter than 32 bytes
C26_Witness ==
  /\ ret.op = "prove" /\ ~ret.isNil /\ ret.found
  /\ Cardinality(WalkSlots(root, Nibbles(ret.key))) >= 3
  /\ \E slot \in WalkSlots(root, Nibbles(ret.key)) : RlpLen(serializeNode(slot)) < 32

\* the nodes on the walk for key that are looked up in the bag: the root,
\* looked up by the root hash, and the nodes their parent refers to by hash
HashReferenced(key) ==
  { slot \in WalkSlots(root, Nibbles(key)) :
      slot = root \/ RlpLen(serializeNode(slot)) >= 32 }

\* C27: VerifyProof returns an error, and neither a value nor not-found,
\* whenever a node the walk for the key refers to by hash (the root, looked
\* up by rootHash, included) is absent from the proof bag.
C27_MissingNodeIsAnError ==
  (/\ ret.op = "verify" /\ ret.against = "current"
   /\ \E slot \in HashReferenced(ret.key) : ~ProofHas(ret.kv, ComputeHash(slot[1])))
    => ret.err = "MissingNode" /\ ret.value = Nil

\* a bag that has the root and lacks a node further down the walk was verified
C27_Witness ==
  /\ ret.op = "verify" /\ ret.against = "current"
  /\ ProofHas(ret.kv, RootHash(root))
  /\ \E slot \in HashReferenced(ret.key) : ~ProofHas(ret.kv, ComputeHash(slot[1]))
  /\ ret.err = "MissingNode"

(***************************************************************************)
(* C28: after GetPreStateAndPostStateProofs is called on a Trie in         *)
(* MODE_GENERATE_FRAUD_PROOF, whatever Gets and Puts preceded it, the Trie *)
(* is dead: its mode is MODE_DEAD, stays MODE_DEAD from then on, and every *)
(* later Get or Put on it panics.                                          *)
(***************************************************************************)
C28_ProofsLeaveTrieDead ==
  [][ /\ (mode = MODE_GENERATE_FRAUD_PROOF /\ ret'.op = "getproofs")
           => mode' = MODE_DEAD
      /\ mode = MODE_DEAD
           => /\ mode' = MODE_DEAD
              /\ ret'.op \in { "get", "put" } => ret'.panicked ]_vars

(***************************************************************************)
(* C29: in every state a Trie can reach through its methods,               *)
(* failedFraudProofReason is non-nil only when mode is                     *)
(* MODE_FAILED_FRAUD_PROOF.                                                *)
(***************************************************************************)
C29_ReasonOnlyWhenFailed ==
  failedFraudProofReason # Nil => mode = MODE_FAILED_FRAUD_PROOF

(***************************************************************************)
(* C30: LoadPreAndPostState returns the error "RootHash after PreState     *)
(* insertion does not match expectedPreStateHash" and moves the Trie to    *)
(* MODE_FAILED_FRAUD_PROOF exactly when the root hash after loading the    *)
(* PreState differs from expectedPreStateHash; when the two are equal it   *)
(* returns nil and the Trie stays in MODE_VERIFY_FRAUD_PROOF.              *)
(***************************************************************************)
C30_LoadErrorIffHashesDiffer ==
  (ret.op = "load" /\ ~ret.panicked) =>
    LET differs == RootHash(root) # ret.expected[1]
        mismatch ==
          /\ ret.err = "RootHash after PreState insertion does not match expectedPreStateHash"
          /\ mode = MODE_FAILED_FRAUD_PROOF
    IN  /\ mismatch <=> differs
        /\ ~differs => (ret.err = "" /\ mode = MODE_VERIFY_FRAUD_PROOF)

====
